---- MODULE Spec2Model ----
(***************************************************************************)
(* Model of the KC-Chain-M2 dataset transformation scripts                 *)
(* (src/data_transformation/*.py): the regex unit parsers of the network   *)
(* pipeline, the Fahrenheit->Celsius deriver of the weather pipeline, the  *)
(* device-id generators and the schema mappers of the dataset pipelines.   *)
(*                                                                         *)
(* Text is a sequence of one-character strings.  A float is a fixed-point  *)
(* integer counting units of 1/FixedOne; a table cell is NaN, a number or  *)
(* a text.  A table is a sequence of rows, a row a function from column    *)
(* name to cell; the row position is the pandas RangeIndex.                *)
(***************************************************************************)
EXTENDS Integers, Sequences, FiniteSets, TLC

VARIABLES
    value,      \* parser spec: the cell handed to an extract_* function
    src,        \* parser spec: the parts the cell's text was written from
    op,         \* parser spec: the extract_* function applied, or "none"
    result,     \* parser spec: what it returned
    ds,         \* the dataset script that runs
    pc,         \* the step of its main() that runs next
    source,     \* the table held by its input file
    raw_data,   \* self.raw_data, the working table
    out,        \* the schema compliant table (parsed_data, converted_data, ...)
    saved,      \* the table held by its output file
    err,        \* the step whose exception ended the run, or "none"
    run,        \* number of this execution of the script
    first_out,  \* the output table of the first execution
    np_random,  \* state of numpy's global generator in this process
    py_random,  \* state of the random module's generator in this process
    drawn,      \* the values the generators returned, by seed and position
    results,    \* what run_script returned for this execution, once it has
    tried,      \* loader spec: the encodings load_dataset has tried
    wallets,    \* wallet spec: self.wallets, the wallets generated so far
    devices,    \* wallet spec: all_devices once shuffled
    assignments,        \* wallet spec: the devices assigned, by wallet id
    detailed_mappings,  \* wallet spec: the rows of the mapping file so far
    summary_data,       \* wallet spec: the rows of the summary file
    position,           \* wallet spec: the index of the loop that runs
    attempts,   \* master spec: the scripts started, with how each ended
    report,     \* master and smoke-test specs: the summary that is reported
    test_results        \* smoke-test spec: self.test_results, by category

pvars == <<value, src, op, result>>
\* what no step of a pipeline changes
rngvars == <<np_random, py_random, drawn>>
\* the variables of the other specifications
walletvars == <<wallets, devices, assignments, detailed_mappings, summary_data, position>>
mastervars == <<attempts, report, test_results>>
others == <<tried, walletvars, mastervars>>
input == <<pvars, ds, source, run, first_out, results, others>>
fixed == <<input, rngvars>>
plvars == <<ds, pc, source, raw_data, out, saved, err, run, first_out, rngvars, results, others>>
vars == <<pvars, plvars>>

----------------------------------------------------------------------------
(* Bounds *)

MaxSpaces == 2
MaxRows == 2

----------------------------------------------------------------------------
(* Cells and numbers *)

\* resolution of the fixed-point image of a float
FixedOne == 10^6

NaN == [t |-> "na"]
Num(x) == [t |-> "num", n |-> x]
Str(s) == [t |-> "str", s |-> s]
Raised == [t |-> "raise"]

isna(v) == v.t = "na"

Digits == <<"0", "1", "2", "3", "4", "5", "6", "7", "8", "9">>

IsDigit(c) == \E d \in 1..10 : Digits[d] = c

DigitVal(c) == (CHOOSE d \in 1..10 : Digits[d] = c) - 1

IsSpace(c) == c \in {" ", "\t"}

RECURSIVE Pow10(_)
Pow10(k) == IF k = 0 THEN 1 ELSE 10 * Pow10(k - 1)

\* decimal text of a natural number (what the data file holds for it)
RECURSIVE IntText(_)
IntText(n) == IF n < 10 THEN <<Digits[n + 1]>>
              ELSE IntText(n \div 10) \o <<Digits[(n % 10) + 1]>>

RECURSIVE Spaces(_)
Spaces(k) == IF k = 0 THEN <<>> ELSE <<" ">> \o Spaces(k - 1)

----------------------------------------------------------------------------
(* re.search of  (-?\d+(?:\.\d+)?)\s*UNIT  and float() of group 1 *)

RECURSIVE DigitsEnd(_, _)
\* first position at or after i that holds no digit
DigitsEnd(s, i) == IF i <= Len(s) /\ IsDigit(s[i]) THEN DigitsEnd(s, i + 1) ELSE i

RECURSIVE SpacesEnd(_, _)
SpacesEnd(s, i) == IF i <= Len(s) /\ IsSpace(s[i]) THEN SpacesEnd(s, i + 1) ELSE i

LiteralAt(s, i, lit) ==
    /\ i + Len(lit) - 1 <= Len(s)
    /\ SubSeq(s, i, i + Len(lit) - 1) = lit

\* \s*UNIT matches at e (any number of the spaces may be taken)
RestMatches(s, e, unit) == \E k \in e..SpacesEnd(s, e) : LiteralAt(s, k, unit)

\* end of the optional (?:\.\d+) that follows the digits ending before d
FractionEnd(s, d) ==
    IF d <= Len(s) /\ s[d] = "." THEN DigitsEnd(s, d + 1) ELSE d

\* the positions where \d+(?:\.\d+)? started at i can end (exclusive), d
\* being the end of its longest run of digits
EndsGiven(s, i, d) ==
    IF d = i THEN {} ELSE (i + 1)..d \cup (d + 2)..FractionEnd(s, d)

NumberEnds(s, i) == EndsGiven(s, i, DigitsEnd(s, i))

MaxOrZero(ends) == IF ends = {} THEN 0 ELSE CHOOSE e \in ends : \A x \in ends : x <= e

\* end of group 1 when the pattern matches with its numeral at i, else 0;
\* the quantifiers are greedy, so the longest numeral that lets the rest
\* match is the one reported
GroupEnd(s, i, unit) ==
    MaxOrZero({e \in NumberEnds(s, i) : RestMatches(s, e, unit)})

\* group 1 as <<from, to>>: the match that takes the optional "-" at i
\* (ending at e1) is preferred to the one that does not (ending at e2)
Preferred(i, e1, e2) ==
    IF e1 # 0 THEN <<i, e1 - 1>>
    ELSE IF e2 # 0 THEN <<i, e2 - 1>>
    ELSE <<>>

\* match of the pattern anchored at start position i: <<from, to>> of
\* group 1, or <<>>
MatchAt(s, i, signed, unit) ==
    Preferred(i,
              IF signed /\ s[i] = "-" THEN GroupEnd(s, i + 1, unit) ELSE 0,
              GroupEnd(s, i, unit))

Slice(s, m) == SubSeq(s, m[1], m[2])

\* the text of the leftmost of the matches, <<>> if there is none
Leftmost(s, matches) ==
    IF matches = {} THEN <<>>
    ELSE Slice(s, CHOOSE m \in matches : \A y \in matches : m[1] <= y[1])

\* re.search: the match at the leftmost start position that has one
re_search(signed, unit, s) ==
    Leftmost(s, {MatchAt(s, i, signed, unit) : i \in 1..Len(s)} \ {<<>>})

RECURSIVE DigitsValue(_)
DigitsValue(t) == IF t = <<>> THEN 0
                  ELSE 10 * DigitsValue(SubSeq(t, 1, Len(t) - 1)) + DigitVal(t[Len(t)])

\* a numeral without sign, its digits ending before d: \d+ or \d+\.\d+
UnsignedLiteral(body, d) ==
    /\ d > 1
    /\ \/ d = Len(body) + 1
       \/ /\ body[d] = "."
          /\ d < Len(body)
          /\ DigitsEnd(body, d + 1) = Len(body) + 1

Unsigned(g) == IF g # <<>> /\ g[1] = "-" THEN Tail(g) ELSE g

\* the texts float() converts among those the patterns can capture
FloatLiteral(g) == UnsignedLiteral(Unsigned(g), DigitsEnd(Unsigned(g), 1))

\* fraction digits fp as a number of 1/FixedOne
FractionValue(fp) == (DigitsValue(fp) * FixedOne) \div Pow10(Len(fp))

\* value of the numeral without sign, its integer part ending before d
UnsignedValue(body, d) ==
    DigitsValue(SubSeq(body, 1, d - 1)) * FixedOne
      + FractionValue(SubSeq(body, d + 1, Len(body)))

Magnitude_(body) == UnsignedValue(body, DigitsEnd(body, 1))

\* float(): the number a numeral text denotes; ValueError otherwise
float(g) ==
    IF ~FloatLiteral(g) THEN Raised
    ELSE IF g[1] = "-" THEN Num(0 - Magnitude_(Tail(g)))
    ELSE Num(Magnitude_(g))

\* float(match.group(1)) if match else np.nan
FloatOrNaN(match) == IF match # <<>> THEN float(match) ELSE NaN

\* variant: the Kbps value is returned without the division
KbpsToMbps_Unscaled(x) == x

\* x / 1000.0
KbpsToMbps(x) == IF x.t = "num" THEN Num(x.n \div 1000) ELSE x

dBm  == <<"d", "B", "m">>
ms   == <<"m", "s">>
Mbps == <<"M", "b", "p", "s">>
Kbps == <<"K", "b", "p", "s">>
Pct  == <<"%">>

extract_signal_strength(v) ==
    IF isna(v) THEN NaN ELSE FloatOrNaN(re_search(TRUE, dBm, v.s))

extract_latency(v) ==
    IF isna(v) THEN NaN ELSE FloatOrNaN(re_search(FALSE, ms, v.s))

\* the Mbps match is tried first, then the Kbps match
MbpsElseKbps(mbps_match, kbps_match) ==
    IF mbps_match # <<>> THEN float(mbps_match)
    ELSE IF kbps_match # <<>> THEN KbpsToMbps(float(kbps_match))
    ELSE NaN

extract_bandwidth(v) ==
    IF isna(v) THEN NaN
    ELSE MbpsElseKbps(re_search(FALSE, Mbps, v.s), re_search(FALSE, Kbps, v.s))

FloatOrZero(match) == IF match # <<>> THEN float(match) ELSE Num(0)

\* variant: a text the pattern does not match is filled with 0
extract_percentage_ZeroFill(v) ==
    IF isna(v) THEN NaN ELSE FloatOrZero(re_search(FALSE, Pct, v.s))

extract_percentage(v) ==
    IF isna(v) THEN NaN ELSE FloatOrNaN(re_search(FALSE, Pct, v.s))

----------------------------------------------------------------------------
(* Specification of the unit parsers: one cell, one extract_* call *)

SampleInts == {0, 5, 30, 75, 100}
SampleFracs == {<<>>, <<"0">>, <<"5">>, <<"2", "5">>}
Signs == {<<>>, <<"-">>, <<"+">>}
UnitTexts == {dBm, <<"d", "b", "m">>, <<"D", "B", "M">>,
              ms, <<"M", "S">>, <<"m", "s", "e", "c">>,
              Mbps, <<"m", "b", "p", "s">>, <<"M", "B", "P", "S">>,
              Kbps, <<"k", "b", "p", "s">>,
              Pct, <<"G", "b", "p", "s">>, <<"s">>, <<>>}

NoInt == 0 - 1

\* the parts a measurement text is written from: int = NoInt means the
\* text holds no integer part, frac = <<>> no decimal point
Sources == [sign : Signs, int : SampleInts \cup {NoInt}, frac : SampleFracs,
            spaces : 0..MaxSpaces, unit : UnitTexts]

NumeralText(p) ==
    p.sign \o (IF p.int = NoInt THEN <<>> ELSE IntText(p.int))
           \o (IF p.frac = <<>> THEN <<>> ELSE <<".">> \o p.frac)

TextOf(p) == NumeralText(p) \o Spaces(p.spaces) \o p.unit

NullSource == [sign |-> <<>>, int |-> NoInt, frac |-> <<>>, spaces |-> 0, unit |-> <<>>]

\* read_csv gives NaN for a null or empty field
CellOf(p) == IF TextOf(p) = <<>> THEN NaN ELSE Str(TextOf(p))

None == [t |-> "none"]

\* an input file that pd.read_csv cannot read: it is absent, or no encoding
\* the script tries decodes it
FileNotFoundError == [t |-> "FileNotFoundError"]
UnicodeDecodeError == [t |-> "UnicodeDecodeError"]
Unreadable == {FileNotFoundError, UnicodeDecodeError}

\* a generator that returned pos values since it was seeded with seed
Generator(seed, pos) == [seed |-> seed, pos |-> pos]

\* the seed a generator takes from the operating system when the process
\* starts: no two executions start with the same
OsEntropy(execution) == 0 - execution

NothingDrawn == [k \in {} |-> 0]

\* the pipeline variables while only a parser is exercised
PipelineIdle ==
    /\ ds = "none"
    /\ pc = "idle"
    /\ source = None
    /\ raw_data = None
    /\ out = None
    /\ saved = None
    /\ err = "none"
    /\ run = 1
    /\ first_out = None
    /\ np_random = Generator(OsEntropy(1), 0)
    /\ py_random = Generator(OsEntropy(1), 0)
    /\ drawn = NothingDrawn
    /\ results = <<>>

\* the variables of the other specifications while they are not exercised
WalletIdle ==
    /\ wallets = <<>>
    /\ devices = <<>>
    /\ assignments = <<>>
    /\ detailed_mappings = <<>>
    /\ summary_data = <<>>
    /\ position = 0

MasterIdle == attempts = <<>> /\ report = <<>> /\ test_results = <<>>

OthersIdle == tried = <<>> /\ WalletIdle /\ MasterIdle

InitParse ==
    /\ src \in Sources
    /\ value = CellOf(src)
    /\ op = "none"
    /\ result = NaN
    /\ PipelineIdle
    /\ OthersIdle

ParseSignalStrength ==
    /\ op = "none"
    /\ op' = "signal_strength"
    /\ result' = extract_signal_strength(value)
    /\ UNCHANGED <<value, src, plvars>>

ParseLatency ==
    /\ op = "none"
    /\ op' = "latency"
    /\ result' = extract_latency(value)
    /\ UNCHANGED <<value, src, plvars>>

ParseBandwidth ==
    /\ op = "none"
    /\ op' = "bandwidth"
    /\ result' = extract_bandwidth(value)
    /\ UNCHANGED <<value, src, plvars>>

ParseResourceAllocation ==
    /\ op = "none"
    /\ op' = "percentage"
    /\ result' = extract_percentage(value)
    /\ UNCHANGED <<value, src, plvars>>

NextParse ==
    \/ ParseSignalStrength
    \/ ParseLatency
    \/ ParseBandwidth
    \/ ParseResourceAllocation

SpecParse == InitParse /\ [][NextParse]_vars

----------------------------------------------------------------------------
(* Tables (pandas DataFrame with the default RangeIndex) *)

Range(q) == {q[i] : i \in DOMAIN q}

Table(columns, rows) == [columns |-> columns, rows |-> rows]

NumRows(df) == Len(df.rows)

HasColumn(df, c) == c \in Range(df.columns)

\* df[c]
Column(df, c) == [i \in 1..NumRows(df) |-> df.rows[i][c]]

\* df.drop(columns=cs)
DropColumns(df, cs) ==
    Table(SelectSeq(df.columns, LAMBDA c : c \notin cs),
          [i \in 1..NumRows(df) |->
              [c \in (DOMAIN df.rows[i]) \ cs |-> df.rows[i][c]]])

\* df[c] = series (a list or a Series on the same index)
SetColumn(df, c, series) ==
    Table(IF HasColumn(df, c) THEN df.columns ELSE Append(df.columns, c),
          [i \in 1..NumRows(df) |->
              [k \in (DOMAIN df.rows[i]) \cup {c} |->
                  IF k = c THEN series[i] ELSE df.rows[i][k]]])

\* a scalar broadcast over the index of df
Broadcast(df, v) == [i \in 1..NumRows(df) |-> v]

\* variant: the column that is absent is filled with zeros
Get_ZeroFilled(df, c, default) ==
    IF HasColumn(df, c) THEN Column(df, c) ELSE Broadcast(df, Num(0))

\* df.get(c, default)
Get(df, c, default) == IF HasColumn(df, c) THEN Column(df, c) ELSE Broadcast(df, default)

\* variant: the rows that hold a missing value are dropped
DataFrame_Dropna(fields, n) ==
    Table([k \in 1..Len(fields) |-> fields[k][1]],
          SelectSeq([i \in 1..n |->
                        [c \in {fields[k][1] : k \in 1..Len(fields)} |->
                            (CHOOSE f \in Range(fields) : f[1] = c)[2][i]]],
                    LAMBDA row : \A c \in DOMAIN row : ~isna(row[c])))

\* pd.DataFrame({name: series, ...}) over n index entries; fields is the
\* dict as a sequence of <<name, series>>
DataFrame(fields, n) ==
    Table([k \in 1..Len(fields) |-> fields[k][1]],
          [i \in 1..n |->
              [c \in {fields[k][1] : k \in 1..Len(fields)} |->
                  (CHOOSE f \in Range(fields) : f[1] = c)[2][i]]])

\* some cell of the series raised
AnyRaised(series) == \E i \in DOMAIN series : series[i].t = "raise"

\* an instant, sec * TicksPerSecond + sub ticks after the epoch; the model
\* resolves TicksPerSecond ticks where datetime64[ns] resolves 10**9
TicksPerSecond == 10^3
Stamp(sec, sub) == [t |-> "time", sec |-> sec, sub |-> sub]

\* variant: the instant is rounded to the nearest second
UnixSeconds_Rounded(stamp) == stamp.sec + ((stamp.sub + (TicksPerSecond \div 2)) \div TicksPerSecond)

\* (sec * 10**9 + sub) // 10**9
UnixSeconds(stamp) == stamp.sec + (stamp.sub \div TicksPerSecond)

\* NaT as an integer is the least int64, and -2**63 // 10**9 is
\* -9223372037; the least integer of the model stands for it
NaTSeconds == 0 - 2147483647

\* variant: a missing date stays a missing value
ToUnix_MissingKept(series) ==
    [i \in DOMAIN series |->
        IF isna(series[i]) THEN NaN ELSE Num(UnixSeconds(series[i]))]

\* pd.to_datetime(series).astype(int) // 10**9; the column holds whole
\* seconds, which the model does not scale by FixedOne
ToUnix(series) ==
    [i \in DOMAIN series |->
        IF isna(series[i]) THEN Num(NaTSeconds) ELSE Num(UnixSeconds(series[i]))]

\* pd.to_datetime(series, unit='s') raises OutOfBoundsDatetime for seconds
\* that nanoseconds in an int64 cannot hold
OutOfBounds(series) == \E i \in DOMAIN series : series[i] = Num(NaTSeconds)

PLACEHOLDER_FOR_CARTESI == Str(<<"P", "L", "A", "C", "E", "H", "O", "L", "D", "E", "R", "_", "F", "O", "R", "_", "C", "A", "R", "T", "E", "S", "I">>)
CARTESI_GENERATED == Str(<<"C", "A", "R", "T", "E", "S", "I", "_", "G", "E", "N", "E", "R", "A", "T", "E", "D">>)

\* all tables of at most MaxRows rows over the given rows
TablesOver(columns, rowset) ==
    {Table(columns, rows) : rows \in UNION {[1..n -> rowset] : n \in 0..MaxRows}}

\* the table whose n rows are the rows of the given set, taken in turn: a
\* file long enough for an assignment by turns to start over
LongTable(columns, rowset, n) ==
    Table(columns,
          [i \in 1..n |->
              (CHOOSE q \in [1..Cardinality(rowset) -> rowset] : Range(q) = rowset)
                  [((i - 1) % Cardinality(rowset)) + 1]])

\* variant: a step that ends normally is run again
Goto_Again(from, to) == pc = from /\ pc' = from /\ err' = err

Goto(from, to) == pc = from /\ pc' = to /\ err' = err

\* an exception leaves main() through its "except: raise"
Fail(from) == pc = from /\ pc' = "failed" /\ err' = from

----------------------------------------------------------------------------
(* network_performance_parsing.py *)

M(sign, int, frac, spaces, unit) ==
    CellOf([sign |-> sign, int |-> int, frac |-> frac, spaces |-> spaces, unit |-> unit])

NetColumns == <<"Timestamp", "User_ID", "Application_Type", "Signal_Strength",
                "Latency", "Required_Bandwidth", "Allocated_Bandwidth",
                "Resource_Allocation">>

NetRows == {
    [Timestamp |-> Stamp(61, 500), User_ID |-> Str(<<"U", "s", "e", "r", "_", "1">>),
     Application_Type |-> Str(<<"V", "i", "d", "e", "o", "_", "C", "a", "l", "l">>),
     Signal_Strength |-> M(<<"-">>, 75, <<>>, 1, dBm),
     Latency |-> M(<<>>, 30, <<>>, 1, ms),
     Required_Bandwidth |-> M(<<>>, 100, <<>>, 1, Kbps),
     Allocated_Bandwidth |-> M(<<>>, 15, <<>>, 1, Mbps),
     Resource_Allocation |-> M(<<>>, 70, <<>>, 0, Pct)],
    [Timestamp |-> Stamp(122, 0), User_ID |-> Str(<<"U", "s", "e", "r", "_", "2">>),
     Application_Type |-> Str(<<"S", "t", "r", "e", "a", "m", "i", "n", "g">>),
     Signal_Strength |-> M(<<"-">>, 60, <<>>, 1, dBm),
     Latency |-> M(<<>>, 5, <<>>, 1, ms),
     Required_Bandwidth |-> M(<<>>, 10, <<>>, 1, Mbps),
     Allocated_Bandwidth |-> M(<<>>, 12, <<"5">>, 1, Mbps),
     Resource_Allocation |-> M(<<>>, 80, <<>>, 0, Pct)],
    [Timestamp |-> Stamp(183, 999), User_ID |-> Str(<<"U", "s", "e", "r", "_", "3">>),
     Application_Type |-> Str(<<"I", "o", "T">>),
     Signal_Strength |-> M(<<"-">>, 90, <<>>, 0, <<"d", "b", "m">>),
     Latency |-> NaN,
     Required_Bandwidth |-> M(<<>>, NoInt, <<>>, 0, Mbps),
     Allocated_Bandwidth |-> M(<<>>, 50, <<>>, 2, <<"G", "b", "p", "s">>),
     Resource_Allocation |-> M(<<>>, 0, <<>>, 1, Pct)],
    [Timestamp |-> NaN, User_ID |-> NaN,
     Application_Type |-> NaN,
     Signal_Strength |-> NaN,
     Latency |-> NaN,
     Required_Bandwidth |-> NaN,
     Allocated_Bandwidth |-> NaN,
     Resource_Allocation |-> NaN]}

\* readings whose signal is exactly at a limit of a band, or below the
\* lower limit
NetEdgeRows ==
    {[Timestamp |-> Stamp(244, 0), User_ID |-> Str(<<"U", "s", "e", "r", "_", "4">>),
      Application_Type |-> Str(<<"I", "o", "T">>),
      Signal_Strength |-> M(<<"-">>, limit, <<>>, 1, dBm),
      Latency |-> M(<<>>, 30, <<>>, 1, ms),
      Required_Bandwidth |-> M(<<>>, 10, <<>>, 1, Mbps),
      Allocated_Bandwidth |-> M(<<>>, 15, <<>>, 1, Mbps),
      Resource_Allocation |-> M(<<>>, 70, <<>>, 0, Pct)] : limit \in {70, 85, 90}}

\* a file of more than twice three rows
NetLong == LongTable(NetColumns, NetRows \cup NetEdgeRows, 2 * 3 + 1)

NetSources ==
    TablesOver(NetColumns, NetRows)
      \cup {DropColumns(df, {"User_ID"}) : df \in TablesOver(NetColumns, NetRows)}
      \cup {NetLong}

CellTowerPrefix == <<"d", "i", "d", ":", "l", "c", "o", "r", "e", ":", "c", "e", "l", "l", "-", "t", "o", "w", "e", "r", "-", "t", "o", "w", "e", "r", "-">>

\* pd.read_csv(path), with the other encodings where the script tries them:
\* the exception of the last attempt leaves load_dataset
read_csv(step, next) ==
    IF source \in Unreadable
    THEN Fail(step) /\ UNCHANGED raw_data
    ELSE Goto(step, next) /\ raw_data' = source

Net_load_dataset ==
    /\ ds = "network"
    /\ read_csv("load_dataset", "audit_privacy_risks")
    /\ UNCHANGED <<fixed, out, saved>>

Net_audit_privacy_risks ==
    /\ ds = "network"
    /\ Goto("audit_privacy_risks", "remove_user_ids")
    /\ UNCHANGED <<fixed, raw_data, out, saved>>

Net_remove_user_ids ==
    /\ ds = "network"
    /\ Goto("remove_user_ids", "parse_signal_strength")
    /\ raw_data' = IF HasColumn(raw_data, "User_ID")
                   THEN DropColumns(raw_data, {"User_ID"})
                   ELSE raw_data
    /\ UNCHANGED <<fixed, out, saved>>

\* variant: the values are assigned in the opposite row order
Parsed_Reversed(step, next, to, series) ==
    IF AnyRaised(series)
    THEN Fail(step) /\ UNCHANGED raw_data
    ELSE /\ Goto(step, next)
         /\ raw_data' = SetColumn(raw_data, to,
                                  [i \in DOMAIN series |-> series[Len(series) + 1 - i]])

\* raw_data[to] = series, unless the function applied raised
Parsed(step, next, to, series) ==
    IF AnyRaised(series)
    THEN Fail(step) /\ UNCHANGED raw_data
    ELSE Goto(step, next) /\ raw_data' = SetColumn(raw_data, to, series)

Net_parse_signal_strength ==
    /\ ds = "network"
    /\ pc = "parse_signal_strength"
    /\ Parsed("parse_signal_strength", "parse_latency", "signal_strength_dbm",
              [i \in 1..NumRows(raw_data) |-> extract_signal_strength(raw_data.rows[i]["Signal_Strength"])])
    /\ UNCHANGED <<fixed, out, saved>>

Net_parse_latency ==
    /\ ds = "network"
    /\ pc = "parse_latency"
    /\ Parsed("parse_latency", "parse_bandwidth", "latency_ms",
              [i \in 1..NumRows(raw_data) |-> extract_latency(raw_data.rows[i]["Latency"])])
    /\ UNCHANGED <<fixed, out, saved>>

\* the two bandwidth columns
Parsed2(step, next, to1, series1, to2, series2) ==
    IF AnyRaised(series1) \/ AnyRaised(series2)
    THEN Fail(step) /\ UNCHANGED raw_data
    ELSE /\ Goto(step, next)
         /\ raw_data' = SetColumn(SetColumn(raw_data, to1, series1), to2, series2)

Net_parse_bandwidth ==
    /\ ds = "network"
    /\ pc = "parse_bandwidth"
    /\ Parsed2("parse_bandwidth", "parse_resource_allocation",
               "required_bandwidth_mbps",
               [i \in 1..NumRows(raw_data) |->
                   extract_bandwidth(raw_data.rows[i]["Required_Bandwidth"])],
               "allocated_bandwidth_mbps",
               [i \in 1..NumRows(raw_data) |->
                   extract_bandwidth(raw_data.rows[i]["Allocated_Bandwidth"])])
    /\ UNCHANGED <<fixed, out, saved>>

Net_parse_resource_allocation ==
    /\ ds = "network"
    /\ pc = "parse_resource_allocation"
    /\ Parsed("parse_resource_allocation", "create_cell_tower_device_ids", "resource_utilization",
              [i \in 1..NumRows(raw_data) |-> extract_percentage(raw_data.rows[i]["Resource_Allocation"])])
    /\ UNCHANGED <<fixed, out, saved>>

\* variant: a signal exactly at a limit falls into the band below
TowerNumber_Exclusive(i, sig) ==
    IF sig.t = "num" /\ sig.n > (0 - 70) * FixedOne THEN (i % 3) + 1
    ELSE IF sig.t = "num" /\ sig.n > (0 - 85) * FixedOne THEN (i % 3) + 4
    ELSE (i % 3) + 7

\* the tower number of the row with index i (from 0) and parsed signal sig;
\* a comparison with NaN is False
TowerNumber(i, sig) ==
    IF sig.t = "num" /\ sig.n >= (0 - 70) * FixedOne THEN (i % 3) + 1
    ELSE IF sig.t = "num" /\ sig.n >= (0 - 85) * FixedOne THEN (i % 3) + 4
    ELSE (i % 3) + 7

Net_create_cell_tower_device_ids ==
    /\ ds = "network"
    /\ Goto("create_cell_tower_device_ids", "convert_timestamps")
    /\ raw_data' = SetColumn(raw_data, "device_id",
           [i \in 1..NumRows(raw_data) |->
               Str(CellTowerPrefix
                     \o IntText(TowerNumber(i - 1, raw_data.rows[i]["signal_strength_dbm"])))])
    /\ UNCHANGED <<fixed, out, saved>>

Net_convert_timestamps ==
    /\ ds = "network"
    /\ Goto("convert_timestamps", "create_schema_compliant_format")
    /\ raw_data' = SetColumn(raw_data, "timestamp_unix", ToUnix(Column(raw_data, "Timestamp")))
    /\ UNCHANGED <<fixed, out, saved>>

Net_create_schema_compliant_format ==
    /\ ds = "network"
    /\ Goto("create_schema_compliant_format", "validate_parsing_results")
    /\ out' = DataFrame(<<
           <<"device_id", Column(raw_data, "device_id")>>,
           <<"owner_address", Broadcast(raw_data, PLACEHOLDER_FOR_CARTESI)>>,
           <<"timestamp", Column(raw_data, "timestamp_unix")>>,
           <<"application_type", Column(raw_data, "Application_Type")>>,
           <<"signal_strength_dbm", Column(raw_data, "signal_strength_dbm")>>,
           <<"latency_ms", Column(raw_data, "latency_ms")>>,
           <<"required_bandwidth_mbps", Column(raw_data, "required_bandwidth_mbps")>>,
           <<"allocated_bandwidth_mbps", Column(raw_data, "allocated_bandwidth_mbps")>>,
           <<"resource_utilization", Column(raw_data, "resource_utilization")>>,
           <<"encrypted_data", Broadcast(raw_data, CARTESI_GENERATED)>>,
           <<"data_hash", Broadcast(raw_data, CARTESI_GENERATED)>> >>,
           NumRows(raw_data))
    /\ UNCHANGED <<fixed, raw_data, saved>>

\* device_id.iloc[0] raises IndexError on a table without rows, and
\* to_datetime(unit='s') raises on the seconds of a missing date
Net_validate_parsing_results ==
    /\ ds = "network"
    /\ pc = "validate_parsing_results"
    /\ IF NumRows(out) = 0 \/ OutOfBounds(Column(out, "timestamp"))
       THEN Fail("validate_parsing_results")
       ELSE Goto("validate_parsing_results", "save_parsed_data")
    /\ UNCHANGED <<fixed, raw_data, out, saved>>

\* variant: the file is written before the results are validated
Net_save_parsed_data_Unvalidated ==
    /\ ds = "network"
    /\ pc = "validate_parsing_results"
    /\ pc' = pc
    /\ err' = err
    /\ saved' = out
    /\ UNCHANGED <<fixed, raw_data, out>>

\* to_csv(output_path, index=False)
Net_save_parsed_data ==
    /\ ds = "network"
    /\ Goto("save_parsed_data", "done")
    /\ saved' = out
    /\ UNCHANGED <<fixed, raw_data, out>>

----------------------------------------------------------------------------
(* weather_unit_conversion.py *)

\* a whole number as a float
F(n) == Num(n * FixedOne)

WeatherColumns == <<"name", "datetime", "temp", "feelslike", "dew", "humidity",
                    "precip", "windspeed", "winddir", "visibility", "conditions",
                    "stations">>

WeatherRows == {
    [name |-> Str(<<"O", "a", "k", "l", "a", "n", "d">>), datetime |-> Stamp(3600, 0),
     temp |-> F(68), feelslike |-> F(32), dew |-> F(212),
     humidity |-> F(55), precip |-> F(0), windspeed |-> F(12), winddir |-> F(270),
     visibility |-> F(10), conditions |-> Str(<<"C", "l", "e", "a", "r">>),
     stations |-> Str(<<"K", "O", "A", "K">>)],
    [name |-> Str(<<"O", "a", "k", "l", "a", "n", "d">>), datetime |-> Stamp(7200, 0),
     temp |-> NaN, feelslike |-> F(50), dew |-> F(0 - 40),
     humidity |-> F(80), precip |-> F(2), windspeed |-> F(5), winddir |-> F(90),
     visibility |-> F(8), conditions |-> Str(<<"R", "a", "i", "n">>),
     stations |-> Str(<<"K", "O", "A", "K">>)],
    [name |-> Str(<<"O", "a", "k", "l", "a", "n", "d">>), datetime |-> Stamp(10800, 0),
     temp |-> F(33), feelslike |-> NaN, dew |-> F(0),
     humidity |-> NaN, precip |-> F(0), windspeed |-> F(20), winddir |-> F(180),
     visibility |-> F(9), conditions |-> Str(<<"O", "v", "e", "r", "c", "a", "s", "t">>),
     stations |-> Str(<<"K", "S", "F", "O">>)]}

\* the columns a weather file may come without
WeatherOptional == {"temp", "feelslike", "dew", "name", "stations", "humidity"}

\* a file of more than twice as many rows as there are stations
WeatherLong == LongTable(WeatherColumns, WeatherRows, 2 * 5 + 1)

WeatherSources ==
    {DropColumns(df, cs) : df \in TablesOver(WeatherColumns, WeatherRows),
                           cs \in SUBSET WeatherOptional}
      \cup {WeatherLong}

\* the columns create_schema_compliant_format indexes with []
WeatherRequired == {"device_id", "timestamp_unix", "humidity", "precip", "windspeed",
                    "winddir", "visibility", "conditions"}

WeatherStationPrefix == <<"d", "i", "d", ":", "l", "c", "o", "r", "e", ":", "w", "e", "a", "t", "h", "e", "r", "-", "s", "t", "a", "t", "i", "o", "n", "-", "o", "a", "k", "l", "a", "n", "d", "-">>

\* variant: a missing value is filled with 0 before the conversion
fahrenheit_to_celsius_ZeroFilled(fahrenheit) ==
    IF isna(fahrenheit) THEN Num(((0 - 32 * FixedOne) * 5) \div 9)
    ELSE Num(((fahrenheit.n - 32 * FixedOne) * 5) \div 9)

\* variant: the factor and the divisor are exchanged
fahrenheit_to_celsius_Swapped(fahrenheit) ==
    IF isna(fahrenheit) THEN NaN
    ELSE Num(((fahrenheit.n - 32 * FixedOne) * 9) \div 5)

\* C = (F - 32) * 5/9
fahrenheit_to_celsius(fahrenheit) ==
    IF isna(fahrenheit) THEN NaN
    ELSE Num(((fahrenheit.n - 32 * FixedOne) * 5) \div 9)

temperature_fields == <<"temp", "feelslike", "dew">>

celsius_name == [temp |-> "temp_celsius", feelslike |-> "feelslike_celsius",
                 dew |-> "dew_celsius"]

Wx_load_dataset ==
    /\ ds = "weather"
    /\ read_csv("load_dataset", "analyze_temperature_data")
    /\ UNCHANGED <<fixed, out, saved>>

Wx_analyze_temperature_data ==
    /\ ds = "weather"
    /\ Goto("analyze_temperature_data", "remove_location_identifiers")
    /\ UNCHANGED <<fixed, raw_data, out, saved>>

Wx_remove_location_identifiers ==
    /\ ds = "weather"
    /\ Goto("remove_location_identifiers", "convert_fahrenheit_to_celsius")
    /\ raw_data' = DropColumns(raw_data, {"name", "stations"})
    /\ UNCHANGED <<fixed, out, saved>>

RECURSIVE ConvertFields(_, _)
\* the loop over temperature_fields, from field number k on
ConvertFields(df, k) ==
    IF k > Len(temperature_fields) THEN df
    ELSE LET field == temperature_fields[k]
         IN  IF HasColumn(df, field)
             THEN ConvertFields(SetColumn(df, celsius_name[field],
                                          [i \in 1..NumRows(df) |-> fahrenheit_to_celsius(df.rows[i][field])]),
                                k + 1)
             ELSE ConvertFields(df, k + 1)

Wx_convert_fahrenheit_to_celsius ==
    /\ ds = "weather"
    /\ Goto("convert_fahrenheit_to_celsius", "create_weather_station_device_ids")
    /\ raw_data' = ConvertFields(raw_data, 1)
    /\ UNCHANGED <<fixed, out, saved>>

num_stations == 5

Wx_create_weather_station_device_ids ==
    /\ ds = "weather"
    /\ Goto("create_weather_station_device_ids", "convert_timestamps")
    /\ raw_data' = SetColumn(raw_data, "device_id",
           [i \in 1..NumRows(raw_data) |->
               Str(WeatherStationPrefix \o IntText(((i - 1) % num_stations) + 1))])
    /\ UNCHANGED <<fixed, out, saved>>

Wx_convert_timestamps ==
    /\ ds = "weather"
    /\ Goto("convert_timestamps", "create_schema_compliant_format")
    /\ raw_data' = SetColumn(raw_data, "timestamp_unix", ToUnix(Column(raw_data, "datetime")))
    /\ UNCHANGED <<fixed, out, saved>>

Wx_create_schema_compliant_format ==
    /\ ds = "weather"
    /\ pc = "create_schema_compliant_format"
    /\ IF \E c \in WeatherRequired : ~HasColumn(raw_data, c)
       THEN Fail("create_schema_compliant_format") /\ UNCHANGED out
       ELSE /\ Goto("create_schema_compliant_format", "validate_conversion_results")
            /\ out' = DataFrame(<<
                 <<"device_id", Column(raw_data, "device_id")>>,
                 <<"owner_address", Broadcast(raw_data, PLACEHOLDER_FOR_CARTESI)>>,
                 <<"timestamp", Column(raw_data, "timestamp_unix")>>,
                 <<"temperature_celsius", Get(raw_data, "temp_celsius", NaN)>>,
                 <<"feels_like_celsius", Get(raw_data, "feelslike_celsius", NaN)>>,
                 <<"dew_point_celsius", Get(raw_data, "dew_celsius", NaN)>>,
                 <<"humidity_percent", Column(raw_data, "humidity")>>,
                 <<"precipitation_mm", Column(raw_data, "precip")>>,
                 <<"wind_speed_kmh", Column(raw_data, "windspeed")>>,
                 <<"wind_direction_degrees", Column(raw_data, "winddir")>>,
                 <<"visibility_km", Column(raw_data, "visibility")>>,
                 <<"conditions", Column(raw_data, "conditions")>>,
                 <<"encrypted_data", Broadcast(raw_data, CARTESI_GENERATED)>>,
                 <<"data_hash", Broadcast(raw_data, CARTESI_GENERATED)>> >>,
                 NumRows(raw_data))
    /\ UNCHANGED <<fixed, raw_data, saved>>

\* device_id.iloc[0] raises IndexError on a table without rows, and
\* to_datetime(unit='s') raises on the seconds of a missing date
Wx_validate_conversion_results ==
    /\ ds = "weather"
    /\ pc = "validate_conversion_results"
    /\ IF NumRows(out) = 0 \/ OutOfBounds(Column(out, "timestamp"))
       THEN Fail("validate_conversion_results")
       ELSE Goto("validate_conversion_results", "save_converted_data")
    /\ UNCHANGED <<fixed, raw_data, out, saved>>

\* to_csv(output_path, index=False)
Wx_save_converted_data ==
    /\ ds = "weather"
    /\ Goto("save_converted_data", "done")
    /\ saved' = out
    /\ UNCHANGED <<fixed, raw_data, out>>

----------------------------------------------------------------------------
(* agriculture_transformation.py *)

\* the header of data/IoT Agriculture.csv
AgriColumns == <<
    "Random",
    "Average  of chlorophyll in the plant (ACHP)",
    "Plant height rate (PHR)",
    "Average wet weight of the growth vegetative (AWWGV)",
    "Average leaf area of the plant (ALAP)",
    "Average number of plant leaves (ANPL)",
    "Average root diameter (ARD)",
    "Average dry weight of the root (ADWR)",
    "Percentage of dry matter for vegetative growth (PDMVG)",
    "Average root length (ARL)",
    "Average wet weight of the root (AWWR)",
    "Average dry weight of vegetative plants (ADWV)",
    "Percentage of dry matter for root growth (PDMRG)",
    "Class" >>

\* the header a file with truncated headers carries for each column: its
\* first 30 characters
ShortHeader ==
    "Random" :> "Random" @@
    "Average  of chlorophyll in the plant (ACHP)" :> "Average  of chlorophyll in the" @@
    "Plant height rate (PHR)" :> "Plant height rate (PHR)" @@
    "Average wet weight of the growth vegetative (AWWGV)" :> "Average wet weight of the grow" @@
    "Average leaf area of the plant (ALAP)" :> "Average leaf area of the plant" @@
    "Average number of plant leaves (ANPL)" :> "Average number of plant leaves" @@
    "Average root diameter (ARD)" :> "Average root diameter (ARD)" @@
    "Average dry weight of the root (ADWR)" :> "Average dry weight of the root" @@
    "Percentage of dry matter for vegetative growth (PDMVG)" :> "Percentage of dry matter for v" @@
    "Average root length (ARL)" :> "Average root length (ARL)" @@
    "Average wet weight of the root (AWWR)" :> "Average wet weight of the root" @@
    "Average dry weight of vegetative plants (ADWV)" :> "Average dry weight of vegetati" @@
    "Percentage of dry matter for root growth (PDMRG)" :> "Percentage of dry matter for r" @@
    "Class" :> "Class"

\* the characters of each header, as written and as truncated
HeaderText ==
    "Random" :> <<"R", "a", "n", "d", "o", "m">> @@
    "Average  of chlorophyll in the plant (ACHP)" :> <<"A", "v", "e", "r", "a", "g", "e", " ", " ", "o", "f", " ", "c", "h", "l", "o", "r", "o", "p", "h", "y", "l", "l", " ", "i", "n", " ", "t", "h", "e", " ", "p", "l", "a", "n", "t", " ", "(", "A", "C", "H", "P", ")">> @@
    "Average  of chlorophyll in the" :> <<"A", "v", "e", "r", "a", "g", "e", " ", " ", "o", "f", " ", "c", "h", "l", "o", "r", "o", "p", "h", "y", "l", "l", " ", "i", "n", " ", "t", "h", "e">> @@
    "Plant height rate (PHR)" :> <<"P", "l", "a", "n", "t", " ", "h", "e", "i", "g", "h", "t", " ", "r", "a", "t", "e", " ", "(", "P", "H", "R", ")">> @@
    "Average wet weight of the growth vegetative (AWWGV)" :> <<"A", "v", "e", "r", "a", "g", "e", " ", "w", "e", "t", " ", "w", "e", "i", "g", "h", "t", " ", "o", "f", " ", "t", "h", "e", " ", "g", "r", "o", "w", "t", "h", " ", "v", "e", "g", "e", "t", "a", "t", "i", "v", "e", " ", "(", "A", "W", "W", "G", "V", ")">> @@
    "Average wet weight of the grow" :> <<"A", "v", "e", "r", "a", "g", "e", " ", "w", "e", "t", " ", "w", "e", "i", "g", "h", "t", " ", "o", "f", " ", "t", "h", "e", " ", "g", "r", "o", "w">> @@
    "Average leaf area of the plant (ALAP)" :> <<"A", "v", "e", "r", "a", "g", "e", " ", "l", "e", "a", "f", " ", "a", "r", "e", "a", " ", "o", "f", " ", "t", "h", "e", " ", "p", "l", "a", "n", "t", " ", "(", "A", "L", "A", "P", ")">> @@
    "Average leaf area of the plant" :> <<"A", "v", "e", "r", "a", "g", "e", " ", "l", "e", "a", "f", " ", "a", "r", "e", "a", " ", "o", "f", " ", "t", "h", "e", " ", "p", "l", "a", "n", "t">> @@
    "Average number of plant leaves (ANPL)" :> <<"A", "v", "e", "r", "a", "g", "e", " ", "n", "u", "m", "b", "e", "r", " ", "o", "f", " ", "p", "l", "a", "n", "t", " ", "l", "e", "a", "v", "e", "s", " ", "(", "A", "N", "P", "L", ")">> @@
    "Average number of plant leaves" :> <<"A", "v", "e", "r", "a", "g", "e", " ", "n", "u", "m", "b", "e", "r", " ", "o", "f", " ", "p", "l", "a", "n", "t", " ", "l", "e", "a", "v", "e", "s">> @@
    "Average root diameter (ARD)" :> <<"A", "v", "e", "r", "a", "g", "e", " ", "r", "o", "o", "t", " ", "d", "i", "a", "m", "e", "t", "e", "r", " ", "(", "A", "R", "D", ")">> @@
    "Average dry weight of the root (ADWR)" :> <<"A", "v", "e", "r", "a", "g", "e", " ", "d", "r", "y", " ", "w", "e", "i", "g", "h", "t", " ", "o", "f", " ", "t", "h", "e", " ", "r", "o", "o", "t", " ", "(", "A", "D", "W", "R", ")">> @@
    "Average dry weight of the root" :> <<"A", "v", "e", "r", "a", "g", "e", " ", "d", "r", "y", " ", "w", "e", "i", "g", "h", "t", " ", "o", "f", " ", "t", "h", "e", " ", "r", "o", "o", "t">> @@
    "Percentage of dry matter for vegetative growth (PDMVG)" :> <<"P", "e", "r", "c", "e", "n", "t", "a", "g", "e", " ", "o", "f", " ", "d", "r", "y", " ", "m", "a", "t", "t", "e", "r", " ", "f", "o", "r", " ", "v", "e", "g", "e", "t", "a", "t", "i", "v", "e", " ", "g", "r", "o", "w", "t", "h", " ", "(", "P", "D", "M", "V", "G", ")">> @@
    "Percentage of dry matter for v" :> <<"P", "e", "r", "c", "e", "n", "t", "a", "g", "e", " ", "o", "f", " ", "d", "r", "y", " ", "m", "a", "t", "t", "e", "r", " ", "f", "o", "r", " ", "v">> @@
    "Average root length (ARL)" :> <<"A", "v", "e", "r", "a", "g", "e", " ", "r", "o", "o", "t", " ", "l", "e", "n", "g", "t", "h", " ", "(", "A", "R", "L", ")">> @@
    "Average wet weight of the root (AWWR)" :> <<"A", "v", "e", "r", "a", "g", "e", " ", "w", "e", "t", " ", "w", "e", "i", "g", "h", "t", " ", "o", "f", " ", "t", "h", "e", " ", "r", "o", "o", "t", " ", "(", "A", "W", "W", "R", ")">> @@
    "Average wet weight of the root" :> <<"A", "v", "e", "r", "a", "g", "e", " ", "w", "e", "t", " ", "w", "e", "i", "g", "h", "t", " ", "o", "f", " ", "t", "h", "e", " ", "r", "o", "o", "t">> @@
    "Average dry weight of vegetative plants (ADWV)" :> <<"A", "v", "e", "r", "a", "g", "e", " ", "d", "r", "y", " ", "w", "e", "i", "g", "h", "t", " ", "o", "f", " ", "v", "e", "g", "e", "t", "a", "t", "i", "v", "e", " ", "p", "l", "a", "n", "t", "s", " ", "(", "A", "D", "W", "V", ")">> @@
    "Average dry weight of vegetati" :> <<"A", "v", "e", "r", "a", "g", "e", " ", "d", "r", "y", " ", "w", "e", "i", "g", "h", "t", " ", "o", "f", " ", "v", "e", "g", "e", "t", "a", "t", "i">> @@
    "Percentage of dry matter for root growth (PDMRG)" :> <<"P", "e", "r", "c", "e", "n", "t", "a", "g", "e", " ", "o", "f", " ", "d", "r", "y", " ", "m", "a", "t", "t", "e", "r", " ", "f", "o", "r", " ", "r", "o", "o", "t", " ", "g", "r", "o", "w", "t", "h", " ", "(", "P", "D", "M", "R", "G", ")">> @@
    "Percentage of dry matter for r" :> <<"P", "e", "r", "c", "e", "n", "t", "a", "g", "e", " ", "o", "f", " ", "d", "r", "y", " ", "m", "a", "t", "t", "e", "r", " ", "f", "o", "r", " ", "r">> @@
    "Class" :> <<"C", "l", "a", "s", "s">>

\* needle in hay
Contains(hay, needle) ==
    \E k \in 0..(Len(hay) - Len(needle)) : SubSeq(hay, k + 1, k + Len(needle)) = needle

\* text[:n]
Prefix(text, n) == SubSeq(text, 1, IF Len(text) < n THEN Len(text) ELSE n)

\* a research record: plot id, class, and measurements that differ from
\* column to column
AgriRow(plot, class, base) ==
    [c \in Range(AgriColumns) |->
        IF c = "Random" THEN plot
        ELSE IF c = "Class" THEN class
        ELSE F(base + (CHOOSE k \in DOMAIN AgriColumns : AgriColumns[k] = c))]

AgriRows == {
    AgriRow(Str(<<"R", "1">>), Str(<<"S", "A">>), 100),
    AgriRow(Str(<<"R", "1">>), Str(<<"S", "B">>), 200),
    AgriRow(Str(<<"R", "2">>), Str(<<"S", "A">>), 300),
    AgriRow(NaN, NaN, 400)}

\* df.rename(columns=mapping), mapping a set of <<old, new>> with one new
\* name for an old one
NewName(c, mapping) ==
    IF \E p \in mapping : p[1] = c THEN (CHOOSE p \in mapping : p[1] = c)[2] ELSE c

Rename(df, mapping) ==
    [columns |-> [k \in DOMAIN df.columns |-> NewName(df.columns[k], mapping)],
     rows |-> [i \in DOMAIN df.rows |->
                 [n \in {NewName(c, mapping) : c \in Range(df.columns)} |->
                     df.rows[i][CHOOSE c \in Range(df.columns) : NewName(c, mapping) = n]]]]

\* the same file with truncated headers
TruncatedHeaders(df) == Rename(df, {<<c, ShortHeader[c]>> : c \in Range(df.columns)})

\* the columns an agriculture file may come without
AgriOptional == {"Class", "Plant height rate (PHR)"}

\* a measurement an agriculture file may come without
AgriUnmeasured == {"Average dry weight of the root (ADWR)"}

AgriSources ==
    {DropColumns(df, cs) : df \in TablesOver(AgriColumns, AgriRows), cs \in SUBSET AgriOptional}
      \cup {TruncatedHeaders(DropColumns(df, cs)) :
                df \in TablesOver(AgriColumns, AgriRows), cs \in SUBSET AgriOptional}
      \cup {DropColumns(df, AgriUnmeasured) : df \in TablesOver(AgriColumns, AgriRows)}
      \cup {TruncatedHeaders(DropColumns(df, AgriUnmeasured)) :
                df \in TablesOver(AgriColumns, AgriRows)}

Ag_load_dataset ==
    /\ ds = "agriculture"
    /\ read_csv("load_dataset", "analyze_data_structure")
    /\ UNCHANGED <<fixed, out, saved>>

\* a cell of the column at position k (from 0) is a text, which the format
\* :.2f rejects
TextAt(df, k) == \E i \in 1..NumRows(df) : df.rows[i][df.columns[k + 1]].t = "str"

\* ['Random'] and ['Class'] raise KeyError, iloc[:, 4] raises IndexError
Ag_analyze_data_structure ==
    /\ ds = "agriculture"
    /\ pc = "analyze_data_structure"
    /\ IF \/ ~HasColumn(raw_data, "Random")
          \/ ~HasColumn(raw_data, "Class")
          \/ Len(raw_data.columns) < 5
          \/ \E k \in {1, 2, 4} : TextAt(raw_data, k)
       THEN Fail("analyze_data_structure")
       ELSE Goto("analyze_data_structure", "remove_redundant_variables")
    /\ UNCHANGED <<fixed, raw_data, out, saved>>

wet_weight_of_the_root == <<"w", "e", "t", " ", "w", "e", "i", "g", "h", "t", " ", "o", "f", " ", "t", "h", "e", " ", "r", "o", "o", "t">>
dry_weight_of_vegetative == <<"d", "r", "y", " ", "w", "e", "i", "g", "h", "t", " ", "o", "f", " ", "v", "e", "g", "e", "t", "a", "t", "i", "v", "e">>
root_growth == <<"r", "o", "o", "t", " ", "g", "r", "o", "w", "t", "h">>

\* 'wet weight of the root' in c or 'dry weight of vegetative' in c or
\* 'root growth' in c
IsDiscard(text) ==
    \/ Contains(text, wet_weight_of_the_root)
    \/ Contains(text, dry_weight_of_vegetative)
    \/ Contains(text, root_growth)

Ag_remove_redundant_variables ==
    /\ ds = "agriculture"
    /\ Goto("remove_redundant_variables", "standardize_column_names")
    /\ raw_data' = DropColumns(raw_data, {c \in Range(raw_data.columns) : IsDiscard(HeaderText[c])})
    /\ UNCHANGED <<fixed, out, saved>>

column_mapping == <<
    <<"Random", "plot_id">>,
    <<"Average  of chlorophyll in the plant (ACHP)", "chlorophyll_avg">>,
    <<"Plant height rate (PHR)", "height_rate">>,
    <<"Average wet weight of the growth vegetative (AWWGV)", "wet_weight_vegetative">>,
    <<"Average leaf area of the plant (ALAP)", "leaf_area_avg">>,
    <<"Average number of plant leaves (ANPL)", "leaf_count_avg">>,
    <<"Average root diameter (ARD)", "root_diameter_avg">>,
    <<"Average dry weight of the root (ADWR)", "root_dry_weight">>,
    <<"Percentage of dry matter for vegetative growth (PDMVG)", "dry_matter_vegetative">>,
    <<"Average root length (ARL)", "root_length_avg">>,
    <<"Class", "plant_class">> >>

\* the length of the header prefix the partial match looks for
PartialLength == 20

\* [col for col in columns if old_name[:20] in col], as column positions
Matching(df, old_name) ==
    {k \in DOMAIN df.columns :
        Contains(HeaderText[df.columns[k]], Prefix(HeaderText[old_name], PartialLength))}

\* actual_mapping[key] = new_name
Assign(mapping, key, new_name) == {p \in mapping : p[1] # key} \cup {<<key, new_name>>}

\* one pass of the loop: the entry old_name -> new_name, given the
\* positions of the partial matches
Mapped(df, mapping, old_name, new_name, matching) ==
    IF HasColumn(df, old_name) THEN Assign(mapping, old_name, new_name)
    ELSE IF matching # {}
         THEN Assign(mapping, df.columns[CHOOSE k \in matching : \A j \in matching : k <= j], new_name)
         ELSE mapping

RECURSIVE ActualMapping(_, _, _)
\* the loop over column_mapping.items(), from entry k on
ActualMapping(df, k, mapping) ==
    IF k > Len(column_mapping) THEN mapping
    ELSE ActualMapping(df, k + 1,
             Mapped(df, mapping, column_mapping[k][1], column_mapping[k][2],
                    Matching(df, column_mapping[k][1])))

Ag_standardize_column_names ==
    /\ ds = "agriculture"
    /\ Goto("standardize_column_names", "generate_iot_timestamps")
    /\ raw_data' = Rename(raw_data, ActualMapping(raw_data, 1, {}))
    /\ UNCHANGED <<fixed, out, saved>>

measurement_interval_hours == 6

\* datetime(2024, 3, 1), in seconds since the epoch
start_date == 1709251200

\* start_date + timedelta(hours=i * measurement_interval_hours)
IotTimestamp(i) == Stamp(start_date + i * measurement_interval_hours * 3600, 0)

\* the two columns of timestamps
WithTimestamps(df, timestamps) ==
    SetColumn(SetColumn(df, "timestamp", timestamps), "timestamp_unix", ToUnix(timestamps))

\* timestamps[0] raises IndexError on a table without rows, after the
\* columns are set
Ag_generate_iot_timestamps ==
    /\ ds = "agriculture"
    /\ pc = "generate_iot_timestamps"
    /\ raw_data' = WithTimestamps(raw_data, [i \in 1..NumRows(raw_data) |-> IotTimestamp(i - 1)])
    /\ IF NumRows(raw_data) = 0
       THEN Fail("generate_iot_timestamps")
       ELSE Goto("generate_iot_timestamps", "create_device_ids")
    /\ UNCHANGED <<fixed, out, saved>>

AgriPrefix == <<"d", "i", "d", ":", "l", "c", "o", "r", "e", ":", "a", "g", "r", "i", "-">>

\* str() of a text or of the missing value, as an f-string formats it
py_str(v) == IF isna(v) THEN <<"n", "a", "n">> ELSE v.s

\* row['plot_id'] raises KeyError
Ag_create_device_ids ==
    /\ ds = "agriculture"
    /\ pc = "create_device_ids"
    /\ IF NumRows(raw_data) > 0 /\ ~HasColumn(raw_data, "plot_id")
       THEN Fail("create_device_ids") /\ UNCHANGED raw_data
       ELSE /\ Goto("create_device_ids", "create_schema_compliant_format")
            /\ raw_data' = SetColumn(raw_data, "device_id",
                   [i \in 1..NumRows(raw_data) |->
                       Str(AgriPrefix \o py_str(raw_data.rows[i]["plot_id"]))])
    /\ UNCHANGED <<fixed, out, saved>>

unknown == Str(<<"u", "n", "k", "n", "o", "w", "n">>)

Ag_create_schema_compliant_format ==
    /\ ds = "agriculture"
    /\ Goto("create_schema_compliant_format", "validate_transformation")
    /\ out' = DataFrame(<<
           <<"device_id", Column(raw_data, "device_id")>>,
           <<"owner_address", Broadcast(raw_data, PLACEHOLDER_FOR_CARTESI)>>,
           <<"timestamp", Column(raw_data, "timestamp_unix")>>,
           <<"chlorophyll_avg", Get(raw_data, "chlorophyll_avg", NaN)>>,
           <<"height_rate", Get(raw_data, "height_rate", NaN)>>,
           <<"wet_weight_vegetative", Get(raw_data, "wet_weight_vegetative", NaN)>>,
           <<"leaf_area_avg", Get(raw_data, "leaf_area_avg", NaN)>>,
           <<"leaf_count_avg", Get(raw_data, "leaf_count_avg", NaN)>>,
           <<"root_diameter_avg", Get(raw_data, "root_diameter_avg", NaN)>>,
           <<"root_dry_weight", Get(raw_data, "root_dry_weight", NaN)>>,
           <<"dry_matter_vegetative", Get(raw_data, "dry_matter_vegetative", NaN)>>,
           <<"root_length_avg", Get(raw_data, "root_length_avg", NaN)>>,
           <<"plant_class", Get(raw_data, "plant_class", unknown)>>,
           <<"encrypted_data", Broadcast(raw_data, CARTESI_GENERATED)>>,
           <<"data_hash", Broadcast(raw_data, CARTESI_GENERATED)>> >>,
           NumRows(raw_data))
    /\ UNCHANGED <<fixed, raw_data, saved>>

\* float(min()) of a column of texts raises, and to_datetime(unit='s')
\* raises on the seconds of a missing date
Ag_validate_transformation ==
    /\ ds = "agriculture"
    /\ pc = "validate_transformation"
    /\ IF \/ \E c \in {"chlorophyll_avg", "height_rate", "leaf_area_avg"} :
                \E i \in 1..NumRows(out) : out.rows[i][c].t = "str"
          \/ OutOfBounds(Column(out, "timestamp"))
       THEN Fail("validate_transformation")
       ELSE Goto("validate_transformation", "save_transformed_data")
    /\ UNCHANGED <<fixed, raw_data, out, saved>>

\* to_csv(output_path, index=False)
Ag_save_transformed_data ==
    /\ ds = "agriculture"
    /\ Goto("save_transformed_data", "done")
    /\ saved' = out
    /\ UNCHANGED <<fixed, raw_data, out>>

----------------------------------------------------------------------------
(* health_privacy_protection.py *)

HealthColumns == <<"Device_ID", "Timestamp", "Steps", "Heart_Rate", "Calories_Burned",
                   "Exercise_Duration", "Activity_Label", "Activity_Confidence",
                   "Temperature", "Location">>

HealthRows == {
    [Device_ID |-> Str(<<"D", "e", "v", "i", "c", "e", "_", "1">>), Timestamp |-> Stamp(86400, 0),
     Steps |-> F(1200), Heart_Rate |-> F(72), Calories_Burned |-> F(95),
     Exercise_Duration |-> F(30), Activity_Label |-> Str(<<"W", "a", "l", "k", "i", "n", "g">>),
     Activity_Confidence |-> F(1), Temperature |-> F(21), Location |-> Str(<<"P", "a", "r", "k">>)],
    [Device_ID |-> Str(<<"D", "e", "v", "i", "c", "e", "_", "1">>), Timestamp |-> Stamp(86460, 250),
     Steps |-> F(40), Heart_Rate |-> NaN, Calories_Burned |-> F(3),
     Exercise_Duration |-> F(0), Activity_Label |-> Str(<<"S", "i", "t", "t", "i", "n", "g">>),
     Activity_Confidence |-> F(0), Temperature |-> F(22), Location |-> Str(<<"H", "o", "m", "e">>)],
    [Device_ID |-> Str(<<"D", "e", "v", "i", "c", "e", "_", "2">>), Timestamp |-> Stamp(0, 0 - 500),
     Steps |-> F(2000), Heart_Rate |-> F(140), Calories_Burned |-> F(180),
     Exercise_Duration |-> F(45), Activity_Label |-> Str(<<"R", "u", "n", "n", "i", "n", "g">>),
     Activity_Confidence |-> F(1), Temperature |-> F(18), Location |-> Str(<<"G", "y", "m">>)],
    [Device_ID |-> NaN, Timestamp |-> Stamp(86520, 0),
     Steps |-> F(10), Heart_Rate |-> F(60), Calories_Burned |-> F(1),
     Exercise_Duration |-> F(0), Activity_Label |-> NaN,
     Activity_Confidence |-> NaN, Temperature |-> F(20), Location |-> NaN]}

\* the columns a health file may come without
HealthOptional == {"Location", "Temperature"}

HealthSources ==
    {DropColumns(df, cs) : df \in TablesOver(HealthColumns, HealthRows),
                           cs \in SUBSET HealthOptional}

\* the columns create_schema_compliant_format indexes with []
HealthRequired == {"device_id", "timestamp_unix", "Steps", "Heart_Rate", "Calories_Burned",
                   "Exercise_Duration", "Activity_Label", "Activity_Confidence",
                   "Temperature"}

HealthTrackerPrefix == <<"d", "i", "d", ":", "l", "c", "o", "r", "e", ":", "h", "e", "a", "l", "t", "h", "-", "t", "r", "a", "c", "k", "e", "r", "-">>

Device_ == <<"D", "e", "v", "i", "c", "e", "_">>

RECURSIVE ReplaceFrom(_, _, _, _)
\* s[i:] with every occurrence of old, found from the left, replaced by new
ReplaceFrom(s, i, old, new) ==
    IF i > Len(s) THEN <<>>
    ELSE IF LiteralAt(s, i, old) THEN new \o ReplaceFrom(s, i + Len(old), old, new)
    ELSE <<s[i]>> \o ReplaceFrom(s, i + 1, old, new)

\* s.replace(old, new), old not empty
py_replace(s, old, new) == ReplaceFrom(s, 1, old, new)

\* the lambda of convert_device_ids; a missing value is a float, which has
\* no replace
health_tracker_id(x) ==
    IF isna(x) THEN Raised
    ELSE Str(HealthTrackerPrefix \o py_replace(x.s, Device_, <<>>))

Hl_load_dataset ==
    /\ ds = "health"
    /\ read_csv("load_dataset", "audit_privacy_risks")
    /\ UNCHANGED <<fixed, out, saved>>

Hl_audit_privacy_risks ==
    /\ ds = "health"
    /\ Goto("audit_privacy_risks", "remove_location_data")
    /\ UNCHANGED <<fixed, raw_data, out, saved>>

Hl_remove_location_data ==
    /\ ds = "health"
    /\ Goto("remove_location_data", "convert_device_ids")
    /\ raw_data' = IF HasColumn(raw_data, "Location")
                   THEN DropColumns(raw_data, {"Location"})
                   ELSE raw_data
    /\ UNCHANGED <<fixed, out, saved>>

Hl_convert_device_ids ==
    /\ ds = "health"
    /\ pc = "convert_device_ids"
    /\ Parsed("convert_device_ids", "convert_timestamps", "device_id",
              [i \in 1..NumRows(raw_data) |-> health_tracker_id(raw_data.rows[i]["Device_ID"])])
    /\ UNCHANGED <<fixed, out, saved>>

Hl_convert_timestamps ==
    /\ ds = "health"
    /\ Goto("convert_timestamps", "create_schema_compliant_format")
    /\ raw_data' = SetColumn(raw_data, "timestamp_unix", ToUnix(Column(raw_data, "Timestamp")))
    /\ UNCHANGED <<fixed, out, saved>>

Hl_create_schema_compliant_format ==
    /\ ds = "health"
    /\ pc = "create_schema_compliant_format"
    /\ IF \E c \in HealthRequired : ~HasColumn(raw_data, c)
       THEN Fail("create_schema_compliant_format") /\ UNCHANGED out
       ELSE /\ Goto("create_schema_compliant_format", "validate_privacy_protection")
            /\ out' = DataFrame(<<
                 <<"device_id", Column(raw_data, "device_id")>>,
                 <<"owner_address", Broadcast(raw_data, PLACEHOLDER_FOR_CARTESI)>>,
                 <<"timestamp", Column(raw_data, "timestamp_unix")>>,
                 <<"steps_count", Column(raw_data, "Steps")>>,
                 <<"heart_rate", Column(raw_data, "Heart_Rate")>>,
                 <<"calories_burned", Column(raw_data, "Calories_Burned")>>,
                 <<"exercise_duration", Column(raw_data, "Exercise_Duration")>>,
                 <<"activity_type", Column(raw_data, "Activity_Label")>>,
                 <<"activity_confidence", Column(raw_data, "Activity_Confidence")>>,
                 <<"ambient_temperature", Column(raw_data, "Temperature")>>,
                 <<"encrypted_data", Broadcast(raw_data, CARTESI_GENERATED)>>,
                 <<"data_hash", Broadcast(raw_data, CARTESI_GENERATED)>> >>,
                 NumRows(raw_data))
    /\ UNCHANGED <<fixed, raw_data, saved>>

\* device_id.iloc[0] raises IndexError on a table without rows, and
\* to_datetime(unit='s') raises on the seconds of a missing date
Hl_validate_privacy_protection ==
    /\ ds = "health"
    /\ pc = "validate_privacy_protection"
    /\ IF NumRows(out) = 0 \/ OutOfBounds(Column(out, "timestamp"))
       THEN Fail("validate_privacy_protection")
       ELSE Goto("validate_privacy_protection", "save_protected_data")
    /\ UNCHANGED <<fixed, raw_data, out, saved>>

\* to_csv(output_path, index=False)
Hl_save_protected_data ==
    /\ ds = "health"
    /\ Goto("save_protected_data", "done")
    /\ saved' = out
    /\ UNCHANGED <<fixed, raw_data, out>>

----------------------------------------------------------------------------
(* retail_pii_anonymization.py *)

kc_neighborhoods == <<
    <<"C", "r", "o", "s", "s", "r", "o", "a", "d", "s", " ", "A", "r", "t", "s", " ", "D", "i", "s", "t", "r", "i", "c", "t">>,
    <<"W", "e", "s", "t", "p", "o", "r", "t">>,
    <<"C", "o", "u", "n", "t", "r", "y", " ", "C", "l", "u", "b", " ", "P", "l", "a", "z", "a">>,
    <<"C", "r", "o", "w", "n", " ", "C", "e", "n", "t", "e", "r">>,
    <<"R", "i", "v", "e", "r", " ", "M", "a", "r", "k", "e", "t">>,
    <<"P", "o", "w", "e", "r", " ", "&", " ", "L", "i", "g", "h", "t", " ", "D", "i", "s", "t", "r", "i", "c", "t">>,
    <<"B", "r", "o", "o", "k", "s", "i", "d", "e">>,
    <<"M", "i", "d", "t", "o", "w", "n">>,
    <<"W", "e", "s", "t", " ", "B", "o", "t", "t", "o", "m", "s">>,
    <<"3", "9", "t", "h", " ", "S", "t", "r", "e", "e", "t", " ", "D", "i", "s", "t", "r", "i", "c", "t">> >>

RetailColumns == <<"ORDERNUMBER", "QUANTITYORDERED", "PRICEEACH", "SALES", "ORDERDATE",
                   "PRODUCTLINE", "DEALSIZE", "CUSTOMERNAME", "PHONE", "ADDRESSLINE1",
                   "ADDRESSLINE2", "CITY", "POSTALCODE", "COUNTRY", "CONTACTLASTNAME",
                   "CONTACTFIRSTNAME">>

RetailRows == {
    [ORDERNUMBER |-> F(107), QUANTITYORDERED |-> F(15), PRICEEACH |-> F(95),
     SALES |-> F(1425), ORDERDATE |-> Stamp(1046044800, 0),
     PRODUCTLINE |-> Str(<<"M", "o", "t", "o", "r", "c", "y", "c", "l", "e", "s">>), DEALSIZE |-> Str(<<"S", "m", "a", "l", "l">>),
     CUSTOMERNAME |-> Str(<<"L", "a", "n", "d", " ", "o", "f", " ", "T", "o", "y", "s", " ", "I", "n", "c", ".">>), PHONE |-> Str(<<"2", "1", "2", "5", "5", "5", "7", "8", "1", "8">>),
     ADDRESSLINE1 |-> Str(<<"8", "9", "7", " ", "L", "o", "n", "g", " ", "A", "i", "r", "p", "o", "r", "t", " ", "A", "v", "e", "n", "u", "e">>), ADDRESSLINE2 |-> NaN,
     CITY |-> Str(<<"N", "Y", "C">>), POSTALCODE |-> Str(<<"1", "0", "0", "2", "2">>), COUNTRY |-> Str(<<"U", "S", "A">>),
     CONTACTLASTNAME |-> Str(<<"Y", "u">>), CONTACTFIRSTNAME |-> Str(<<"K", "w", "a", "i">>)],
    [ORDERNUMBER |-> F(121), QUANTITYORDERED |-> F(17), PRICEEACH |-> F(81),
     SALES |-> F(1377), ORDERDATE |-> Stamp(1052265600, 0),
     PRODUCTLINE |-> Str(<<"C", "l", "a", "s", "s", "i", "c", " ", "C", "a", "r", "s">>), DEALSIZE |-> Str(<<"M", "e", "d", "i", "u", "m">>),
     CUSTOMERNAME |-> Str(<<"R", "e", "i", "m", "s", " ", "C", "o", "l", "l", "e", "c", "t", "a", "b", "l", "e", "s">>), PHONE |-> Str(<<"2", "6", ".", "4", "7", ".", "1", "5", "5", "5">>),
     ADDRESSLINE1 |-> Str(<<"5", "9", " ", "r", "u", "e", " ", "d", "e", " ", "l", "'", "A", "b", "b", "a", "y", "e">>), ADDRESSLINE2 |-> Str(<<"L", "e", "v", "e", "l", " ", "3">>),
     CITY |-> Str(<<"R", "e", "i", "m", "s">>), POSTALCODE |-> Str(<<"5", "1", "1", "0", "0">>), COUNTRY |-> Str(<<"F", "r", "a", "n", "c", "e">>),
     CONTACTLASTNAME |-> Str(<<"H", "e", "n", "r", "i", "o", "t">>), CONTACTFIRSTNAME |-> Str(<<"P", "a", "u", "l">>)]}

\* the columns a retail file may come without
RetailOptional == {"ADDRESSLINE2", "DEALSIZE"}

RetailSources ==
    {DropColumns(df, cs) : df \in TablesOver(RetailColumns, RetailRows),
                           cs \in SUBSET RetailOptional}

\* the columns create_schema_compliant_format indexes with []
RetailRequired == {"device_id", "timestamp_unix", "ORDERNUMBER", "QUANTITYORDERED",
                   "PRICEEACH", "SALES", "PRODUCTLINE", "store_region", "DEALSIZE"}

pii_columns_to_remove == {"CUSTOMERNAME", "PHONE", "ADDRESSLINE1", "ADDRESSLINE2",
                          "CONTACTLASTNAME", "CONTACTFIRSTNAME"}

Uppercase == <<"A", "B", "C", "D", "E", "F", "G", "H", "I", "J", "K", "L", "M", "N", "O", "P", "Q", "R", "S", "T", "U", "V", "W", "X", "Y", "Z">>
Lowercase == <<"a", "b", "c", "d", "e", "f", "g", "h", "i", "j", "k", "l", "m", "n", "o", "p", "q", "r", "s", "t", "u", "v", "w", "x", "y", "z">>

\* variant: the case of the letters is kept
py_lower_Kept(s) == s

\* s.lower()
py_lower(s) ==
    [i \in 1..Len(s) |->
        IF s[i] \in Range(Uppercase)
        THEN Lowercase[CHOOSE k \in DOMAIN Uppercase : Uppercase[k] = s[i]]
        ELSE s[i]]

\* the positions (from 0) in kc_neighborhoods that the model lets
\* np.random.choice return, and the values of random.randint(1, 3)
SampleIndices == {5, 6}
StoreNumbers == 1..3

\* the n values a generator returns from state g on: what it returned
\* before for the same seed and position, else any value of the sample
Draws(name, g, n, sample) ==
    {values \in [1..n -> sample] :
        \A i \in 1..n :
            <<name, g.seed, g.pos + i - 1>> \in DOMAIN drawn
                => values[i] = drawn[<<name, g.seed, g.pos + i - 1>>]}

\* drawn, with the n values returned from state g on
Recorded(name, g, n, values) ==
    [k \in DOMAIN drawn \cup {<<name, g.seed, g.pos + i - 1>> : i \in 1..n} |->
        IF k \in DOMAIN drawn THEN drawn[k] ELSE values[k[3] - g.pos + 1]]

Rt_load_dataset ==
    /\ ds = "retail"
    /\ read_csv("load_dataset", "audit_pii_risks")
    /\ UNCHANGED <<fixed, out, saved>>

Rt_audit_pii_risks ==
    /\ ds = "retail"
    /\ Goto("audit_pii_risks", "display_kc_neighborhoods")
    /\ UNCHANGED <<fixed, raw_data, out, saved>>

Rt_display_kc_neighborhoods ==
    /\ ds = "retail"
    /\ Goto("display_kc_neighborhoods", "remove_all_pii")
    /\ UNCHANGED <<fixed, raw_data, out, saved>>

Rt_remove_all_pii ==
    /\ ds = "retail"
    /\ Goto("remove_all_pii", "anonymize_store_locations")
    /\ raw_data' = DropColumns(raw_data, pii_columns_to_remove)
    /\ UNCHANGED <<fixed, out, saved>>

\* np.random.seed(seed)
np_random_seed(g, seed) == Generator(seed, 0)

\* np.random.choice(self.kc_neighborhoods, len(self.raw_data)), the
\* generator at g, returning the positions in choice
Anonymized(g, n, choice) ==
    /\ raw_data' = SetColumn(raw_data, "store_region",
                             [i \in 1..n |-> Str(kc_neighborhoods[choice[i] + 1])])
    /\ np_random' = Generator(g.seed, g.pos + n)
    /\ drawn' = Recorded("np", g, n, choice)

Rt_anonymize_store_locations ==
    /\ ds = "retail"
    /\ Goto("anonymize_store_locations", "create_retail_device_ids")
    /\ \E choice \in Draws("np", np_random_seed(np_random, 42), NumRows(raw_data), SampleIndices) :
          Anonymized(np_random_seed(np_random, 42), NumRows(raw_data), choice)
    /\ UNCHANGED <<input, py_random, out, saved>>

RetailPrefix == <<"d", "i", "d", ":", "l", "c", "o", "r", "e", ":", "r", "e", "t", "a", "i", "l", "-">>
StoreInfix == <<"-", "s", "t", "o", "r", "e", "-">>

\* create_store_device_id(region), random.randint(1, 3) returning store_num
create_store_device_id(region, store_num) ==
    Str(RetailPrefix
          \o py_replace(py_replace(py_lower(region), <<" ">>, <<"-">>), <<"&">>, <<"a", "n", "d">>)
          \o StoreInfix \o IntText(store_num))

\* variant: the generator is left as the process started it
random_seed_Ignored(g, a) == g

\* random.seed(a)
random_seed(g, a) == Generator(a, 0)

\* self.raw_data['store_region'].apply(create_store_device_id), the
\* generator at g, randint returning store_nums
WithStoreIds(g, n, store_nums) ==
    /\ raw_data' = SetColumn(raw_data, "device_id",
                             [i \in 1..n |->
                                 create_store_device_id(raw_data.rows[i]["store_region"].s, store_nums[i])])
    /\ py_random' = Generator(g.seed, g.pos + n)
    /\ drawn' = Recorded("py", g, n, store_nums)

Rt_create_retail_device_ids ==
    /\ ds = "retail"
    /\ Goto("create_retail_device_ids", "convert_timestamps")
    /\ \E store_nums \in Draws("py", random_seed(py_random, 42), NumRows(raw_data), StoreNumbers) :
          WithStoreIds(random_seed(py_random, 42), NumRows(raw_data), store_nums)
    /\ UNCHANGED <<input, np_random, out, saved>>

Rt_convert_timestamps ==
    /\ ds = "retail"
    /\ Goto("convert_timestamps", "create_schema_compliant_format")
    /\ raw_data' = SetColumn(raw_data, "timestamp_unix", ToUnix(Column(raw_data, "ORDERDATE")))
    /\ UNCHANGED <<fixed, out, saved>>

USA == Str(<<"U", "S", "A">>)

Rt_create_schema_compliant_format ==
    /\ ds = "retail"
    /\ pc = "create_schema_compliant_format"
    /\ IF \E c \in RetailRequired : ~HasColumn(raw_data, c)
       THEN Fail("create_schema_compliant_format") /\ UNCHANGED out
       ELSE /\ Goto("create_schema_compliant_format", "validate_anonymization_results")
            /\ out' = DataFrame(<<
                 <<"device_id", Column(raw_data, "device_id")>>,
                 <<"owner_address", Broadcast(raw_data, PLACEHOLDER_FOR_CARTESI)>>,
                 <<"timestamp", Column(raw_data, "timestamp_unix")>>,
                 <<"transaction_id", Column(raw_data, "ORDERNUMBER")>>,
                 <<"quantity_sold", Column(raw_data, "QUANTITYORDERED")>>,
                 <<"unit_price", Column(raw_data, "PRICEEACH")>>,
                 <<"total_sales", Column(raw_data, "SALES")>>,
                 <<"product_category", Column(raw_data, "PRODUCTLINE")>>,
                 <<"store_region", Column(raw_data, "store_region")>>,
                 <<"store_country", Broadcast(raw_data, USA)>>,
                 <<"transaction_size", Column(raw_data, "DEALSIZE")>>,
                 <<"encrypted_data", Broadcast(raw_data, CARTESI_GENERATED)>>,
                 <<"data_hash", Broadcast(raw_data, CARTESI_GENERATED)>> >>,
                 NumRows(raw_data))
    /\ UNCHANGED <<fixed, raw_data, saved>>

\* time_range.min().strftime raises on a table without rows, and
\* to_datetime(unit='s') raises on the seconds of a missing date
Rt_validate_anonymization_results ==
    /\ ds = "retail"
    /\ pc = "validate_anonymization_results"
    /\ IF NumRows(out) = 0 \/ OutOfBounds(Column(out, "timestamp"))
       THEN Fail("validate_anonymization_results")
       ELSE Goto("validate_anonymization_results", "save_anonymized_data")
    /\ UNCHANGED <<fixed, raw_data, out, saved>>

\* to_csv(output_path, index=False)
Rt_save_anonymized_data ==
    /\ ds = "retail"
    /\ Goto("save_anonymized_data", "done")
    /\ saved' = out
    /\ UNCHANGED <<fixed, raw_data, out>>

----------------------------------------------------------------------------
(* environmental_fusion.py; raw_data holds air_data and water_data, out is
   combined_data *)

\* the instant of canonical form: 0 <= sub < TicksPerSecond
Normal(sec, sub) == Stamp(sec + (sub \div TicksPerSecond), sub % TicksPerSecond)

\* a - b, a + b and i * d on instants and intervals
Minus(a, b) == Normal(a.sec - b.sec, a.sub - b.sub)
Plus(a, b) == Normal(a.sec + b.sec, a.sub + b.sub)
Times(i, d) == Normal(i * d.sec, i * d.sub)

\* a <= b on instants of canonical form
Before(a, b) == a.sec < b.sec \/ (a.sec = b.sec /\ a.sub <= b.sub)

\* series.min() of a series of instants that is not empty
Earliest(series) ==
    CHOOSE a \in Range(series) : \A b \in Range(series) : Before(Normal(a.sec, a.sub), Normal(b.sec, b.sub))

\* the characters of identifiers, in the order of their code points
CodePoints == <<" ", "-", "0", "1", "2", "3", "4", "5", "6", "7", "8", "9", "A", "B", "C", "D", "E", "F", "G", "H", "I", "J", "K", "L", "M", "N", "O", "P", "Q", "R", "S", "T", "U", "V", "W", "X", "Y", "Z", "_", "a", "b", "c", "d", "e", "f", "g", "h", "i", "j", "k", "l", "m", "n", "o", "p", "q", "r", "s", "t", "u", "v", "w", "x", "y", "z">>

Ord(c) == CHOOSE k \in DOMAIN CodePoints : CodePoints[k] = c

RECURSIVE TextBefore(_, _, _)
\* a[i:] < b[i:] as Python orders str
TextBefore(a, b, i) ==
    IF i > Len(b) THEN FALSE
    ELSE IF i > Len(a) THEN TRUE
    ELSE IF a[i] = b[i] THEN TextBefore(a, b, i + 1)
    ELSE Ord(a[i]) < Ord(b[i])

AirColumns == <<"timestamp", "location_id", "temperature_celsius", "humidity_percent",
                "air_quality_index", "noise_level_db", "lighting_lux", "crowd_density",
                "stress_level", "sleep_hours", "mood_score", "mental_health_status">>

AirRows == {
    [timestamp |-> Stamp(0, 0), location_id |-> Str(<<"L", "2">>),
     temperature_celsius |-> F(21), humidity_percent |-> F(40), air_quality_index |-> F(55),
     noise_level_db |-> F(60), lighting_lux |-> F(300), crowd_density |-> F(34),
     stress_level |-> F(3), sleep_hours |-> F(7), mood_score |-> F(6),
     mental_health_status |-> Str(<<"o", "k">>)],
    [timestamp |-> Stamp(900, 0), location_id |-> Str(<<"L", "1">>),
     temperature_celsius |-> F(22), humidity_percent |-> NaN, air_quality_index |-> F(80),
     noise_level_db |-> F(65), lighting_lux |-> F(500), crowd_density |-> F(39),
     stress_level |-> F(5), sleep_hours |-> F(6), mood_score |-> F(4),
     mental_health_status |-> Str(<<"l", "o", "w">>)],
    [timestamp |-> Stamp(900, 0), location_id |-> Str(<<"L", "1">>),
     temperature_celsius |-> F(23), humidity_percent |-> F(45), air_quality_index |-> F(60),
     noise_level_db |-> F(70), lighting_lux |-> F(100), crowd_density |-> F(32),
     stress_level |-> F(1), sleep_hours |-> F(8), mood_score |-> F(9),
     mental_health_status |-> Str(<<"o", "k">>)]}

WaterColumns == <<"Temperature (°C)", "pH", "Turbidity (NTU)", "BOD (mg/l)",
                  "Disolved Oxygen (mg/l)", "Conductivity (μmhos/cm)",
                  "Fecal Coliform (MPN/100ml)", "NITRATENAN N+ NITRITENANN (mg/l)">>

\* a water sample whose measurements differ from column to column
WaterRow(base) ==
    [c \in Range(WaterColumns) |->
        F(base + (CHOOSE k \in DOMAIN WaterColumns : WaterColumns[k] = c))]

WaterRows == {WaterRow(10), WaterRow(20)}

\* the columns the two files may come without
AirOptional == {"stress_level"}
WaterOptional == {"Fecal Coliform (MPN/100ml)"}

\* all tables of at most MaxRows rows over the given rows, no row twice
DistinctTablesOver(columns, rowset) ==
    {t \in TablesOver(columns, rowset) : Cardinality(Range(t.rows)) = NumRows(t)}

\* an air file of one reading at each of two locations, and a water file
\* of more rows than there are locations
EnvLong == [air |-> LongTable(AirColumns, {r \in AirRows : r.temperature_celsius.n < 23 * FixedOne}, 2),
            water |-> LongTable(WaterColumns, WaterRows, 2 + 1)]

\* the air file holds no reading twice
EnvSources ==
    {[air |-> DropColumns(a, ca), water |-> DropColumns(w, cw)] :
        a \in DistinctTablesOver(AirColumns, AirRows), ca \in SUBSET AirOptional,
        w \in TablesOver(WaterColumns, WaterRows), cw \in SUBSET WaterOptional}
      \cup {EnvLong}

Env_load_datasets ==
    /\ ds = "environmental"
    /\ read_csv("load_datasets", "analyze_data_quality")
    /\ UNCHANGED <<fixed, out, saved>>

\* sorted() of the distinct values of a column raises TypeError when it
\* compares a text with the missing value
Unsortable(series) ==
    /\ \E i \in DOMAIN series : isna(series[i])
    /\ \E i \in DOMAIN series : ~isna(series[i])

\* ['timestamp'], ['location_id'] and ['Temperature (°C)'] raise KeyError
Env_analyze_data_quality ==
    /\ ds = "environmental"
    /\ pc = "analyze_data_quality"
    /\ IF \/ ~HasColumn(raw_data.air, "timestamp")
          \/ ~HasColumn(raw_data.air, "location_id")
          \/ ~HasColumn(raw_data.water, "Temperature (°C)")
          \/ Unsortable(Column(raw_data.air, "location_id"))
       THEN Fail("analyze_data_quality")
       ELSE Goto("analyze_data_quality", "remove_pii_data")
    /\ UNCHANGED <<fixed, raw_data, out, saved>>

pii_columns == {"stress_level", "sleep_hours", "mood_score", "mental_health_status"}

water_discard == {"Fecal Coliform (MPN/100ml)", "NITRATENAN N+ NITRITENANN (mg/l)"}

\* drop(columns=pii_columns) raises KeyError when one of them is absent
Env_remove_pii_data ==
    /\ ds = "environmental"
    /\ pc = "remove_pii_data"
    /\ IF \E c \in pii_columns : ~HasColumn(raw_data.air, c)
       THEN Fail("remove_pii_data") /\ UNCHANGED raw_data
       ELSE /\ Goto("remove_pii_data", "generate_timestamps_for_water")
            /\ raw_data' = [air |-> DropColumns(raw_data.air, pii_columns),
                            water |-> DropColumns(raw_data.water, water_discard)]
    /\ UNCHANGED <<fixed, out, saved>>

\* air_timestamps.diff(), without its first, missing entry
Diffs(series) == [i \in 1..(Len(series) - 1) |-> Minus(series[i + 1], series[i])]

Count(series, v) == Cardinality({i \in DOMAIN series : series[i] = v})

\* series.mode()[0]: the least of the most frequent values
Mode0(series) ==
    CHOOSE a \in Range(series) :
        \A b \in Range(series) :
            \/ Count(series, a) > Count(series, b)
            \/ Count(series, a) = Count(series, b) /\ Before(a, b)

\* water_data['timestamp'] = start_time + i * time_interval
WaterStamped(water, start_time, time_interval) ==
    SetColumn(water, "timestamp",
              [i \in 1..NumRows(water) |-> Plus(start_time, Times(i - 1, time_interval))])

\* mode()[0] raises KeyError when diff() holds no interval
Env_generate_timestamps_for_water ==
    /\ ds = "environmental"
    /\ pc = "generate_timestamps_for_water"
    /\ IF NumRows(raw_data.air) < 2
       THEN Fail("generate_timestamps_for_water") /\ UNCHANGED raw_data
       ELSE /\ Goto("generate_timestamps_for_water", "assign_water_sensors_to_locations")
            /\ raw_data' = [air |-> raw_data.air,
                            water |-> WaterStamped(raw_data.water,
                                          Earliest(Column(raw_data.air, "timestamp")),
                                          Mode0(Diffs(Column(raw_data.air, "timestamp"))))]
    /\ UNCHANGED <<fixed, out, saved>>

\* sorted(series.unique()), the series holding texts only or missing
\* values only
SortedUnique(series) ==
    CHOOSE q \in [1..Cardinality(Range(series)) -> Range(series)] :
        /\ Range(q) = Range(series)
        /\ \A i \in DOMAIN q : \A j \in DOMAIN q : i < j => TextBefore(q[i].s, q[j].s, 1)

\* variant: the rows past the last location all get the last location
Cycled_Clamped(water, air_locations) ==
    SetColumn(water, "location_id",
              [i \in 1..NumRows(water) |->
                  air_locations[IF i < Len(air_locations) THEN i ELSE Len(air_locations)]])

\* air_locations[i % len(air_locations)] for the water rows i, from 0
Cycled(water, air_locations) ==
    SetColumn(water, "location_id",
              [i \in 1..NumRows(water) |-> air_locations[((i - 1) % Len(air_locations)) + 1]])

Env_assign_water_sensors_to_locations ==
    /\ ds = "environmental"
    /\ Goto("assign_water_sensors_to_locations", "create_device_ids")
    /\ raw_data' = [air |-> raw_data.air,
                    water |-> Cycled(raw_data.water,
                                     SortedUnique(Column(raw_data.air, "location_id")))]
    /\ UNCHANGED <<fixed, out, saved>>

EnvPrefix == <<"d", "i", "d", ":", "l", "c", "o", "r", "e", ":", "e", "n", "v", "-">>
AirSuffix == <<"-", "a", "i", "r">>

\* variant: the water sensors get the suffix of the air sensors
WaterSuffix_Air == AirSuffix

WaterSuffix == <<"-", "w", "a", "t", "e", "r">>

\* variant: the identifier is built from the position of the row
WithEnvIds_ByRow(df, suffix) ==
    SetColumn(df, "device_id",
              [i \in 1..NumRows(df) |-> Str(EnvPrefix \o IntText(i) \o suffix)])

\* f"did:lcore:env-{row['location_id']}-air" and ...-water, row by row
WithEnvIds(df, suffix) ==
    SetColumn(df, "device_id",
              [i \in 1..NumRows(df) |->
                  Str(EnvPrefix \o py_str(df.rows[i]["location_id"]) \o suffix)])

Env_create_device_ids ==
    /\ ds = "environmental"
    /\ Goto("create_device_ids", "standardize_column_names")
    /\ raw_data' = [air |-> WithEnvIds(raw_data.air, AirSuffix),
                    water |-> WithEnvIds(raw_data.water, WaterSuffix)]
    /\ UNCHANGED <<fixed, out, saved>>

air_quality == Str(<<"a", "i", "r", "_", "q", "u", "a", "l", "i", "t", "y">>)
water_quality == Str(<<"w", "a", "t", "e", "r", "_", "q", "u", "a", "l", "i", "t", "y">>)

water_column_mapping == {
    <<"Temperature (°C)", "water_temperature">>,
    <<"pH", "ph_level">>,
    <<"Turbidity (NTU)", "turbidity_ntu">>,
    <<"BOD (mg/l)", "bod_mgl">>,
    <<"Disolved Oxygen (mg/l)", "dissolved_oxygen_mgl">>,
    <<"Conductivity (μmhos/cm)", "conductivity">>}

\* variant: tagging a table also discards its lighting column
Tagged_Dropping(df, tag) ==
    DropColumns(SetColumn(df, "sensor_type", Broadcast(df, tag)), {"lighting_lux"})

\* df['sensor_type'] = tag
Tagged(df, tag) == SetColumn(df, "sensor_type", Broadcast(df, tag))

Env_standardize_column_names ==
    /\ ds = "environmental"
    /\ Goto("standardize_column_names", "combine_datasets")
    /\ raw_data' = [air |-> Tagged(raw_data.air, air_quality),
                    water |-> Rename(Tagged(raw_data.water, water_quality), water_column_mapping)]
    /\ UNCHANGED <<fixed, out, saved>>

\* variant: a personal column is listed among the combined columns
common_columns_WithMood ==
    <<"device_id", "timestamp", "location_id", "sensor_type",
      "temperature_celsius", "humidity_percent", "air_quality_index",
      "noise_level_db", "lighting_lux", "mood_score",
      "water_temperature", "ph_level", "turbidity_ntu",
      "bod_mgl", "dissolved_oxygen_mgl", "conductivity">>

common_columns == <<"device_id", "timestamp", "location_id", "sensor_type",
                    "temperature_celsius", "humidity_percent", "air_quality_index",
                    "noise_level_db", "lighting_lux", "crowd_density",
                    "water_temperature", "ph_level", "turbidity_ntu",
                    "bod_mgl", "dissolved_oxygen_mgl", "conductivity">>

null_in_air == {"water_temperature", "ph_level", "turbidity_ntu", "bod_mgl",
                "dissolved_oxygen_mgl", "conductivity"}

null_in_water == {"humidity_percent", "air_quality_index", "noise_level_db",
                  "lighting_lux", "crowd_density"}

\* df[c] = None for the columns cs, then df.reindex(columns=common_columns):
\* a column that is absent is filled with missing values
Reindexed(df, cs) ==
    [i \in 1..NumRows(df) |->
        [c \in Range(common_columns) |->
            IF c \in cs \/ ~HasColumn(df, c) THEN NaN ELSE df.rows[i][c]]]

\* variant: the rows stay in the order of the concatenation
Argsort_AsGiven(keys) == {[i \in DOMAIN keys |-> i]}

\* the orders argsort may return for the keys of sort_values('timestamp'):
\* the sort is not stable, so rows of one instant come in any order, but
\* it is a function of its keys, so the same keys come in the same order
\* again
Argsort(keys) ==
    {q \in [DOMAIN keys -> DOMAIN keys] :
        /\ Range(q) = DOMAIN keys
        /\ \A i \in DOMAIN keys : \A j \in DOMAIN keys :
              i < j => Before(keys[q[i]], keys[q[j]])
        /\ <<"argsort", keys>> \in DOMAIN drawn => q = drawn[<<"argsort", keys>>]}

\* pd.concat([air, water], ignore_index=True)
Concat(air_rows, water_rows) == air_rows \o water_rows

\* sort_values('timestamp').reset_index(drop=True) of the rows
SortedByTimestamp(rows, keys) ==
    \E q \in Argsort(keys) :
        /\ out' = Table(common_columns, [i \in DOMAIN rows |-> rows[q[i]]])
        /\ drawn' = [k \in DOMAIN drawn \cup {<<"argsort", keys>>} |->
                        IF k \in DOMAIN drawn THEN drawn[k] ELSE q]

\* water_combined['water_temperature'] raises KeyError
Env_combine_datasets ==
    /\ ds = "environmental"
    /\ pc = "combine_datasets"
    /\ IF ~HasColumn(raw_data.water, "water_temperature")
       THEN Fail("combine_datasets") /\ UNCHANGED <<out, drawn>>
       ELSE /\ Goto("combine_datasets", "validate_fusion_results")
            /\ SortedByTimestamp(
                   Concat(Reindexed(raw_data.air, null_in_air),
                          Reindexed(SetColumn(raw_data.water, "temperature_celsius",
                                              Column(raw_data.water, "water_temperature")),
                                    null_in_water)),
                   Column(raw_data.air, "timestamp") \o Column(raw_data.water, "timestamp"))
    /\ UNCHANGED <<input, np_random, py_random, raw_data, saved>>

Env_validate_fusion_results ==
    /\ ds = "environmental"
    /\ Goto("validate_fusion_results", "save_transformed_data")
    /\ UNCHANGED <<fixed, raw_data, out, saved>>

\* combined_data['timestamp_unix'] = ..., then to_csv(output_path, index=False)
Env_save_transformed_data ==
    /\ ds = "environmental"
    /\ Goto("save_transformed_data", "done")
    /\ out' = SetColumn(out, "timestamp_unix", ToUnix(Column(out, "timestamp")))
    /\ saved' = out'
    /\ UNCHANGED <<fixed, raw_data>>

----------------------------------------------------------------------------
(* create_wallet_device_mapping.py *)

\* _get_actual_device_ids(): the device ids of the transformed datasets,
\* by category, each written as its prefix and the rest of the literal
actual_device_ids == [
    agricultural |-> <<
        Str(AgriPrefix \o <<"R", "1">>),
        Str(AgriPrefix \o <<"R", "2">>),
        Str(AgriPrefix \o <<"R", "3">>)>>,
    environmental |-> <<
        Str(EnvPrefix \o <<"1", "0", "1", "-", "a", "i", "r">>),
        Str(EnvPrefix \o <<"1", "0", "1", "-", "w", "a", "t", "e", "r">>),
        Str(EnvPrefix \o <<"1", "0", "2", "-", "a", "i", "r">>),
        Str(EnvPrefix \o <<"1", "0", "2", "-", "w", "a", "t", "e", "r">>),
        Str(EnvPrefix \o <<"1", "0", "3", "-", "a", "i", "r">>),
        Str(EnvPrefix \o <<"1", "0", "3", "-", "w", "a", "t", "e", "r">>),
        Str(EnvPrefix \o <<"1", "0", "4", "-", "a", "i", "r">>),
        Str(EnvPrefix \o <<"1", "0", "4", "-", "w", "a", "t", "e", "r">>),
        Str(EnvPrefix \o <<"1", "0", "5", "-", "a", "i", "r">>),
        Str(EnvPrefix \o <<"1", "0", "5", "-", "w", "a", "t", "e", "r">>)>>,
    health |-> <<
        Str(HealthTrackerPrefix \o <<"1">>),
        Str(HealthTrackerPrefix \o <<"2">>),
        Str(HealthTrackerPrefix \o <<"3">>),
        Str(HealthTrackerPrefix \o <<"4">>),
        Str(HealthTrackerPrefix \o <<"5">>),
        Str(HealthTrackerPrefix \o <<"6">>),
        Str(HealthTrackerPrefix \o <<"7">>),
        Str(HealthTrackerPrefix \o <<"8">>),
        Str(HealthTrackerPrefix \o <<"9">>),
        Str(HealthTrackerPrefix \o <<"1", "0">>)>>,
    network |-> <<
        Str(CellTowerPrefix \o <<"1">>),
        Str(CellTowerPrefix \o <<"2">>),
        Str(CellTowerPrefix \o <<"3">>),
        Str(CellTowerPrefix \o <<"4">>),
        Str(CellTowerPrefix \o <<"5">>),
        Str(CellTowerPrefix \o <<"6">>),
        Str(CellTowerPrefix \o <<"7">>),
        Str(CellTowerPrefix \o <<"8">>),
        Str(CellTowerPrefix \o <<"9">>)>>,
    retail |-> <<
        Str(RetailPrefix \o <<"3", "9", "t", "h", "-", "s", "t", "r", "e", "e", "t", "-", "d", "i", "s", "t", "r", "i", "c", "t", "-", "s", "t", "o", "r", "e", "-", "1">>),
        Str(RetailPrefix \o <<"3", "9", "t", "h", "-", "s", "t", "r", "e", "e", "t", "-", "d", "i", "s", "t", "r", "i", "c", "t", "-", "s", "t", "o", "r", "e", "-", "2">>),
        Str(RetailPrefix \o <<"3", "9", "t", "h", "-", "s", "t", "r", "e", "e", "t", "-", "d", "i", "s", "t", "r", "i", "c", "t", "-", "s", "t", "o", "r", "e", "-", "3">>),
        Str(RetailPrefix \o <<"b", "r", "o", "o", "k", "s", "i", "d", "e", "-", "s", "t", "o", "r", "e", "-", "1">>),
        Str(RetailPrefix \o <<"b", "r", "o", "o", "k", "s", "i", "d", "e", "-", "s", "t", "o", "r", "e", "-", "2">>),
        Str(RetailPrefix \o <<"b", "r", "o", "o", "k", "s", "i", "d", "e", "-", "s", "t", "o", "r", "e", "-", "3">>),
        Str(RetailPrefix \o <<"c", "o", "u", "n", "t", "r", "y", "-", "c", "l", "u", "b", "-", "p", "l", "a", "z", "a", "-", "s", "t", "o", "r", "e", "-", "1">>),
        Str(RetailPrefix \o <<"c", "o", "u", "n", "t", "r", "y", "-", "c", "l", "u", "b", "-", "p", "l", "a", "z", "a", "-", "s", "t", "o", "r", "e", "-", "2">>),
        Str(RetailPrefix \o <<"c", "o", "u", "n", "t", "r", "y", "-", "c", "l", "u", "b", "-", "p", "l", "a", "z", "a", "-", "s", "t", "o", "r", "e", "-", "3">>),
        Str(RetailPrefix \o <<"c", "r", "o", "s", "s", "r", "o", "a", "d", "s", "-", "a", "r", "t", "s", "-", "d", "i", "s", "t", "r", "i", "c", "t", "-", "s", "t", "o", "r", "e", "-", "1">>),
        Str(RetailPrefix \o <<"c", "r", "o", "s", "s", "r", "o", "a", "d", "s", "-", "a", "r", "t", "s", "-", "d", "i", "s", "t", "r", "i", "c", "t", "-", "s", "t", "o", "r", "e", "-", "2">>),
        Str(RetailPrefix \o <<"c", "r", "o", "s", "s", "r", "o", "a", "d", "s", "-", "a", "r", "t", "s", "-", "d", "i", "s", "t", "r", "i", "c", "t", "-", "s", "t", "o", "r", "e", "-", "3">>),
        Str(RetailPrefix \o <<"c", "r", "o", "w", "n", "-", "c", "e", "n", "t", "e", "r", "-", "s", "t", "o", "r", "e", "-", "1">>),
        Str(RetailPrefix \o <<"c", "r", "o", "w", "n", "-", "c", "e", "n", "t", "e", "r", "-", "s", "t", "o", "r", "e", "-", "2">>),
        Str(RetailPrefix \o <<"c", "r", "o", "w", "n", "-", "c", "e", "n", "t", "e", "r", "-", "s", "t", "o", "r", "e", "-", "3">>),
        Str(RetailPrefix \o <<"m", "i", "d", "t", "o", "w", "n", "-", "s", "t", "o", "r", "e", "-", "1">>),
        Str(RetailPrefix \o <<"m", "i", "d", "t", "o", "w", "n", "-", "s", "t", "o", "r", "e", "-", "2">>),
        Str(RetailPrefix \o <<"m", "i", "d", "t", "o", "w", "n", "-", "s", "t", "o", "r", "e", "-", "3">>),
        Str(RetailPrefix \o <<"p", "o", "w", "e", "r", "-", "a", "n", "d", "-", "l", "i", "g", "h", "t", "-", "d", "i", "s", "t", "r", "i", "c", "t", "-", "s", "t", "o", "r", "e", "-", "1">>),
        Str(RetailPrefix \o <<"p", "o", "w", "e", "r", "-", "a", "n", "d", "-", "l", "i", "g", "h", "t", "-", "d", "i", "s", "t", "r", "i", "c", "t", "-", "s", "t", "o", "r", "e", "-", "2">>),
        Str(RetailPrefix \o <<"p", "o", "w", "e", "r", "-", "a", "n", "d", "-", "l", "i", "g", "h", "t", "-", "d", "i", "s", "t", "r", "i", "c", "t", "-", "s", "t", "o", "r", "e", "-", "3">>),
        Str(RetailPrefix \o <<"r", "i", "v", "e", "r", "-", "m", "a", "r", "k", "e", "t", "-", "s", "t", "o", "r", "e", "-", "1">>),
        Str(RetailPrefix \o <<"r", "i", "v", "e", "r", "-", "m", "a", "r", "k", "e", "t", "-", "s", "t", "o", "r", "e", "-", "2">>),
        Str(RetailPrefix \o <<"r", "i", "v", "e", "r", "-", "m", "a", "r", "k", "e", "t", "-", "s", "t", "o", "r", "e", "-", "3">>),
        Str(RetailPrefix \o <<"w", "e", "s", "t", "-", "b", "o", "t", "t", "o", "m", "s", "-", "s", "t", "o", "r", "e", "-", "1">>),
        Str(RetailPrefix \o <<"w", "e", "s", "t", "-", "b", "o", "t", "t", "o", "m", "s", "-", "s", "t", "o", "r", "e", "-", "2">>),
        Str(RetailPrefix \o <<"w", "e", "s", "t", "-", "b", "o", "t", "t", "o", "m", "s", "-", "s", "t", "o", "r", "e", "-", "3">>),
        Str(RetailPrefix \o <<"w", "e", "s", "t", "p", "o", "r", "t", "-", "s", "t", "o", "r", "e", "-", "1">>),
        Str(RetailPrefix \o <<"w", "e", "s", "t", "p", "o", "r", "t", "-", "s", "t", "o", "r", "e", "-", "2">>),
        Str(RetailPrefix \o <<"w", "e", "s", "t", "p", "o", "r", "t", "-", "s", "t", "o", "r", "e", "-", "3">>)>>,
    weather |-> <<
        Str(WeatherStationPrefix \o <<"1">>),
        Str(WeatherStationPrefix \o <<"2">>),
        Str(WeatherStationPrefix \o <<"3">>),
        Str(WeatherStationPrefix \o <<"4">>),
        Str(WeatherStationPrefix \o <<"5">>)>>]

\* the categories in the order of the dict
device_categories == <<"agricultural", "environmental", "health", "network", "retail", "weather">>

RECURSIVE Extended(_)
\* all_devices after the first k categories were appended with extend()
Extended(k) ==
    IF k = 0 THEN <<>> ELSE Extended(k - 1) \o actual_device_ids[device_categories[k]]

\* all_devices of distribute_devices_across_all_wallets, before the shuffle
all_devices == Extended(Len(device_categories))

----------------------------------------------------------------------------
(* Specification of the dataset pipelines: each script's main() runs its
   steps in order on the table of its input file; the script may then be
   executed a second time on the same file *)

FirstStep(d) == IF d = "environmental" THEN "load_datasets" ELSE "load_dataset"

SourcesOf(d) ==
    CASE d = "network" -> NetSources
      [] d = "weather" -> WeatherSources
      [] d = "agriculture" -> AgriSources
      [] d = "health" -> HealthSources
      [] d = "retail" -> RetailSources
      [] d = "environmental" -> EnvSources

Datasets == {"agriculture", "environmental", "health", "network", "retail", "weather"}

ParserIdle ==
    /\ src = NullSource
    /\ value = NaN
    /\ op = "none"
    /\ result = NaN

Init ==
    /\ ParserIdle
    /\ ds \in Datasets
    /\ source \in SourcesOf(ds) \cup Unreadable
    /\ pc = FirstStep(ds)
    /\ raw_data = None
    /\ out = None
    /\ saved = None
    /\ err = "none"
    /\ run = 1
    /\ first_out = None
    /\ np_random = Generator(OsEntropy(1), 0)
    /\ py_random = Generator(OsEntropy(1), 0)
    /\ drawn = NothingDrawn
    /\ results = <<>>
    /\ OthersIdle

\* the script ended normally and is executed again: a new process, the
\* same input file
Rerun ==
    /\ pc = "done"
    /\ run = 1
    /\ run' = 2
    /\ first_out' = out
    /\ pc' = FirstStep(ds)
    /\ raw_data' = None
    /\ out' = None
    /\ np_random' = Generator(OsEntropy(2), 0)
    /\ py_random' = Generator(OsEntropy(2), 0)
    /\ results' = <<>>
    /\ UNCHANGED <<pvars, ds, source, saved, err, drawn, others>>

\* variant: main() catches the exception and returns
returncode_Swallowed == IF pc \in {"done", "failed"} THEN 0 ELSE 1

\* the exit status of the script: main() returned, or its exception left
\* the interpreter
returncode == IF pc = "done" THEN 0 ELSE 1

\* subprocess.run() returns when the script has ended; run_script returns
\* whether the exit status is 0, which the master appends to its results
run_script ==
    /\ pc \in {"done", "failed"}
    /\ results = <<>>
    /\ results' = Append(results, returncode = 0)
    /\ UNCHANGED <<pvars, ds, pc, source, raw_data, out, saved, err, run, first_out, rngvars, others>>

NetworkStep ==
    \/ Net_load_dataset
    \/ Net_audit_privacy_risks
    \/ Net_remove_user_ids
    \/ Net_parse_signal_strength
    \/ Net_parse_latency
    \/ Net_parse_bandwidth
    \/ Net_parse_resource_allocation
    \/ Net_create_cell_tower_device_ids
    \/ Net_convert_timestamps
    \/ Net_create_schema_compliant_format
    \/ Net_validate_parsing_results
    \/ Net_save_parsed_data

WeatherStep ==
    \/ Wx_load_dataset
    \/ Wx_analyze_temperature_data
    \/ Wx_remove_location_identifiers
    \/ Wx_convert_fahrenheit_to_celsius
    \/ Wx_create_weather_station_device_ids
    \/ Wx_convert_timestamps
    \/ Wx_create_schema_compliant_format
    \/ Wx_validate_conversion_results
    \/ Wx_save_converted_data

AgricultureStep ==
    \/ Ag_load_dataset
    \/ Ag_analyze_data_structure
    \/ Ag_remove_redundant_variables
    \/ Ag_standardize_column_names
    \/ Ag_generate_iot_timestamps
    \/ Ag_create_device_ids
    \/ Ag_create_schema_compliant_format
    \/ Ag_validate_transformation
    \/ Ag_save_transformed_data

HealthStep ==
    \/ Hl_load_dataset
    \/ Hl_audit_privacy_risks
    \/ Hl_remove_location_data
    \/ Hl_convert_device_ids
    \/ Hl_convert_timestamps
    \/ Hl_create_schema_compliant_format
    \/ Hl_validate_privacy_protection
    \/ Hl_save_protected_data

RetailStep ==
    \/ Rt_load_dataset
    \/ Rt_audit_pii_risks
    \/ Rt_display_kc_neighborhoods
    \/ Rt_remove_all_pii
    \/ Rt_anonymize_store_locations
    \/ Rt_create_retail_device_ids
    \/ Rt_convert_timestamps
    \/ Rt_create_schema_compliant_format
    \/ Rt_validate_anonymization_results
    \/ Rt_save_anonymized_data

EnvironmentalStep ==
    \/ Env_load_datasets
    \/ Env_analyze_data_quality
    \/ Env_remove_pii_data
    \/ Env_generate_timestamps_for_water
    \/ Env_assign_water_sensors_to_locations
    \/ Env_create_device_ids
    \/ Env_standardize_column_names
    \/ Env_combine_datasets
    \/ Env_validate_fusion_results
    \/ Env_save_transformed_data

Next ==
    \/ NetworkStep
    \/ WeatherStep
    \/ AgricultureStep
    \/ HealthStep
    \/ RetailStep
    \/ EnvironmentalStep
    \/ Rerun
    \/ run_script

Spec == Init /\ [][Next]_vars

----------------------------------------------------------------------------
(* load_dataset of retail_pii_anonymization.py and the read of the water
   file in load_datasets of environmental_fusion.py: one file, read with
   up to three encodings.  A file is a sequence of bytes; a text is the
   sequence of the code points it decodes to. *)

MaxBytes == 2

\* 'A', the two bytes of an accented letter in UTF-8 and two bytes that
\* the 8-bit encodings read differently
Bytes == {65, 195, 169, 147, 129}

\* a decoded text
Text(cs) == [t |-> "text", s |-> cs]

\* the text cs followed by what the rest decodes to
Then(cs, rest) == IF rest.t = "text" THEN Text(cs \o rest.s) ELSE rest

RECURSIVE utf_8(_)
\* bytes.decode('utf-8') of one and two byte forms
utf_8(b) ==
    IF b = <<>> THEN Text(<<>>)
    ELSE IF b[1] < 128 THEN Then(<<b[1]>>, utf_8(Tail(b)))
    ELSE IF b[1] \in 194..223 /\ Len(b) >= 2 /\ b[2] \in 128..191
         THEN Then(<<(b[1] - 192) * 64 + (b[2] - 128)>>, utf_8(Tail(Tail(b))))
    ELSE UnicodeDecodeError

\* bytes.decode('latin-1'): every byte is its code point
latin_1(b) == Text(b)

\* the bytes cp1252 leaves undefined
cp1252_undefined == {129, 141, 143, 144, 157}

\* bytes.decode('cp1252') of the bytes of Bytes: 0x93 is a left double
\* quotation mark
cp1252(b) ==
    IF \E i \in DOMAIN b : b[i] \in cp1252_undefined THEN UnicodeDecodeError
    ELSE Text([i \in DOMAIN b |-> IF b[i] = 147 THEN 8220 ELSE b[i]])

decode(b, encoding) ==
    CASE encoding = "utf-8" -> utf_8(b)
      [] encoding = "latin-1" -> latin_1(b)
      [] encoding = "cp1252" -> cp1252(b)

ParserError == [t |-> "ParserError"]
EmptyDataError == [t |-> "EmptyDataError"]

\* the table read from a text
TextTable(text) == [t |-> "table", text |-> text.s]

\* an input file: present or not, its bytes, and whether its lines hold
\* differing numbers of fields
Files ==
    {[exists |-> e, bytes |-> b, ragged |-> r] :
        e \in BOOLEAN, r \in BOOLEAN,
        b \in UNION {[1..n -> Bytes] : n \in 0..MaxBytes}}

\* the exceptions pd.read_csv(path, encoding=...) of a present file can
\* raise; with two causes, which one is met first depends on where in the
\* file they lie
Raises(file, encoding) ==
    (IF decode(file.bytes, encoding) = UnicodeDecodeError THEN {UnicodeDecodeError} ELSE {})
    \cup (IF file.ragged THEN {ParserError} ELSE {})
    \cup (IF file.bytes = <<>> THEN {EmptyDataError} ELSE {})

\* what pd.read_csv(path, encoding=...) returns or raises
pd_read_csv(file, encoding) ==
    IF ~file.exists THEN {FileNotFoundError}
    ELSE IF Raises(file, encoding) = {} THEN {TextTable(decode(file.bytes, encoding))}
    ELSE Raises(file, encoding)

Attempt(encoding, o) == [encoding |-> encoding, raised |-> IF o.t = "table" THEN "none" ELSE o.t]

\* the loader's variables are pc, source (the file), raw_data, err, tried
loadervars == <<ds, pc, source, raw_data, err, tried>>
LoaderRest == <<pvars, out, saved, run, first_out, rngvars, results, walletvars, mastervars>>

\* self.raw_data = pd.read_csv(path, encoding=...)
Assigned(o) == pc' = "loaded" /\ raw_data' = o /\ err' = err

\* the exception leaves load_dataset
Propagated(o) == pc' = "failed" /\ raw_data' = raw_data /\ err' = o.t

\* try: pd.read_csv(path, encoding='utf-8')  except UnicodeDecodeError:
load_utf_8 ==
    /\ pc = "utf-8"
    /\ \E o \in pd_read_csv(source, "utf-8") :
          /\ tried' = Append(tried, Attempt("utf-8", o))
          /\ IF o.t = "table" THEN Assigned(o)
             ELSE IF o = UnicodeDecodeError
                  THEN pc' = "latin-1" /\ UNCHANGED <<raw_data, err>>
             ELSE Propagated(o)
    /\ UNCHANGED <<ds, source, LoaderRest>>

\* variant: the second attempt passes on what is not a decoding error
Caught_DecodingOnly(o) == o = UnicodeDecodeError

\* the bare except: of the second attempt
Caught(o) == o.t # "table"

\* try: pd.read_csv(path, encoding='latin-1')  except:
load_latin_1 ==
    /\ pc = "latin-1"
    /\ \E o \in pd_read_csv(source, "latin-1") :
          /\ tried' = Append(tried, Attempt("latin-1", o))
          /\ IF o.t = "table" THEN Assigned(o)
             ELSE IF Caught(o) THEN pc' = "cp1252" /\ UNCHANGED <<raw_data, err>>
             ELSE Propagated(o)
    /\ UNCHANGED <<ds, source, LoaderRest>>

\* pd.read_csv(path, encoding='cp1252')
load_cp1252 ==
    /\ pc = "cp1252"
    /\ \E o \in pd_read_csv(source, "cp1252") :
          /\ tried' = Append(tried, Attempt("cp1252", o))
          /\ IF o.t = "table" THEN Assigned(o) ELSE Propagated(o)
    /\ UNCHANGED <<ds, source, LoaderRest>>

InitLoad ==
    /\ ParserIdle
    /\ ds \in {"retail", "environmental"}
    /\ source \in Files
    /\ pc = "utf-8"
    /\ raw_data = None
    /\ out = None
    /\ saved = None
    /\ err = "none"
    /\ run = 1
    /\ first_out = None
    /\ np_random = Generator(OsEntropy(1), 0)
    /\ py_random = Generator(OsEntropy(1), 0)
    /\ drawn = NothingDrawn
    /\ results = <<>>
    /\ tried = <<>>
    /\ WalletIdle
    /\ MasterIdle

NextLoad ==
    \/ load_utf_8
    \/ load_latin_1
    \/ load_cp1252

SpecLoad == InitLoad /\ [][NextLoad]_vars

----------------------------------------------------------------------------
(* Specification of the wallet mapper: create_wallet_device_mapping.py
   generates the wallets, shuffles the device ids, assigns them and
   writes the mapping file and the summary file *)

\* generate_wallets(100), as create_mapping_csv calls it
wallet_count == 100

WalletPrefix == <<"w", "a", "l", "l", "e", "t", "_">>

\* format(n, "03d")
ZeroPadded3(n) ==
    IF n < 10 THEN <<"0", "0">> \o IntText(n)
    ELSE IF n < 100 THEN <<"0">> \o IntText(n)
    ELSE IntText(n)

\* f"wallet_{i+1:03d}", i counted from 0
WalletId(i) == Str(WalletPrefix \o ZeroPadded3(i + 1))

\* the i-th key secrets.token_hex(32) returned, and the address
\* Account.from_key derives from a key
PrivateKey(i) == [t |-> "key", token |-> i]
Address(key) == [t |-> "address", key |-> key]

\* the wallet generate_wallets appends in iteration i
Wallet(i) ==
    [wallet_id |-> WalletId(i), address |-> Address(PrivateKey(i)), private_key |-> PrivateKey(i)]

\* main(): random.seed(42), then create_mapping_csv()
Wm_main ==
    /\ pc = "main"
    /\ pc' = "generate_wallets"
    /\ py_random' = random_seed(py_random, 42)
    /\ UNCHANGED <<mastervars, pvars, ds, source, raw_data, out, saved, err, run, first_out,
                   np_random, drawn, results, others>>

\* one iteration of the loop of generate_wallets
generate_wallets ==
    /\ pc = "generate_wallets"
    /\ position < wallet_count
    /\ wallets' = Append(wallets, Wallet(position))
    /\ IF position + 1 < wallet_count
       THEN position' = position + 1 /\ pc' = pc
       ELSE position' = 0 /\ pc' = "flatten"
    /\ UNCHANGED <<mastervars, pvars, ds, source, raw_data, out, saved, err, run, first_out,
                   rngvars, results, tried, devices, assignments, detailed_mappings, summary_data>>

\* x[i], x[j] = x[j], x[i], positions from 0 and j <= i
Exchanged(x, i, j) ==
    IF i = j THEN x
    ELSE SubSeq(x, 1, j) \o <<x[i + 1]>> \o SubSeq(x, j + 2, i)
           \o <<x[j + 1]>> \o SubSeq(x, i + 2, Len(x))

\* the values randbelow returns after random.seed(42), in the order of the
\* calls (CPython 3.11)
Seed42Draws == <<14, 3, 35, 31, 14, 8, 47, 6, 43, 47, 34, 5, 37, 27, 2, 1, 5, 13, 14,
                 32, 38, 1, 35, 12, 41, 34, 26, 14, 28, 37, 17, 0, 10, 27, 21, 17, 4,
                 6, 24, 10, 3, 2, 12, 3, 11, 11, 19, 8, 1, 14, 3, 12, 1, 8, 4, 10, 9,
                 5, 3, 1, 0, 5, 1, 2, 0, 0>>

\* the number of states the model lets the operating system's entropy put
\* an unseeded generator in
MaxShuffles == 3

\* randbelow(n) of the generator at g: the recorded draw after seed(42),
\* else, for the k-th entropy, k * (n - 1) mod n
randbelow(g, n) ==
    IF g.seed = 42
    THEN IF g.pos < Len(Seed42Draws) THEN Seed42Draws[g.pos + 1] % n ELSE 0
    ELSE ((0 - g.seed) * (n - 1)) % n

\* all_devices = [], all_devices.extend(devices) for every category
Wm_flatten ==
    /\ pc = "flatten"
    /\ pc' = "shuffle"
    /\ devices' = all_devices
    /\ position' = Len(all_devices) - 1
    /\ UNCHANGED <<mastervars, pvars, ds, source, raw_data, out, saved, err, run, first_out,
                   rngvars, results, tried, wallets, assignments,
                   detailed_mappings, summary_data>>

\* one iteration of random.shuffle(all_devices):
\* for i in reversed(range(1, len(x))): j = randbelow(i + 1); x[i], x[j] = x[j], x[i]
Wm_shuffle ==
    /\ pc = "shuffle"
    /\ position >= 1
    /\ devices' = Exchanged(devices, position, randbelow(py_random, position + 1))
    /\ py_random' = Generator(py_random.seed, py_random.pos + 1)
    /\ IF position > 1
       THEN position' = position - 1 /\ pc' = pc
       ELSE position' = 0 /\ pc' = "assign"
    /\ UNCHANGED <<mastervars, pvars, ds, source, raw_data, out, saved, err, run, first_out,
                   np_random, drawn, results, tried, wallets, assignments,
                   detailed_mappings, summary_data>>

\* variant: two consecutive devices go to the same wallet
AssignedWallet_Paired(i) == WalletId(i \div 2)

\* wallet_id = f"wallet_{i + 1:03d}" of the loop over enumerate(all_devices)
AssignedWallet(i) == WalletId(i)

\* d[k] = v
SetItem(d, k, v) == [x \in DOMAIN d \cup {k} |-> IF x = k THEN v ELSE d[x]]

\* one iteration of: assignments[wallet_id] = [device_id]
Wm_assign ==
    /\ pc = "assign"
    /\ position < Len(devices)
    /\ assignments' = SetItem(assignments, AssignedWallet(position), <<devices[position + 1]>>)
    /\ IF position + 1 < Len(devices)
       THEN position' = position + 1 /\ pc' = pc
       ELSE position' = 0 /\ pc' = "detail"
    /\ UNCHANGED <<mastervars, pvars, ds, source, raw_data, out, saved, err, run, first_out,
                   rngvars, results, tried, wallets, devices, detailed_mappings, summary_data>>

\* the category names as the files hold them
CategoryText == [agricultural |-> <<"a", "g", "r", "i", "c", "u", "l", "t", "u", "r", "a", "l">>,
    environmental |-> <<"e", "n", "v", "i", "r", "o", "n", "m", "e", "n", "t", "a", "l">>,
    health |-> <<"h", "e", "a", "l", "t", "h">>,
    network |-> <<"n", "e", "t", "w", "o", "r", "k">>,
    retail |-> <<"r", "e", "t", "a", "i", "l">>,
    weather |-> <<"w", "e", "a", "t", "h", "e", "r">>]

RECURSIVE CategoryFrom(_, _)
\* for cat, devices in self.actual_device_ids.items():
\*     if device_id in devices: category = cat; break
CategoryFrom(device_id, k) ==
    IF k > Len(device_categories) THEN <<"u", "n", "k", "n", "o", "w", "n">>
    ELSE IF device_id \in Range(actual_device_ids[device_categories[k]])
         THEN CategoryText[device_categories[k]]
    ELSE CategoryFrom(device_id, k + 1)

\* device_assignments.get(wallet_id, [])
WalletDevices(wallet_id) ==
    IF wallet_id \in DOMAIN assignments THEN assignments[wallet_id] ELSE <<>>

\* the rows create_mapping_csv appends for a wallet
MappingRows(wallet, wallet_devices) ==
    IF wallet_devices # <<>>
    THEN [n \in 1..Len(wallet_devices) |->
             [wallet_id |-> wallet.wallet_id,
              wallet_address |-> wallet.address,
              private_key |-> wallet.private_key,
              device_id |-> wallet_devices[n],
              device_category |-> Str(CategoryFrom(wallet_devices[n], 1)),
              devices_owned |-> F(Len(wallet_devices))]]
    ELSE <<[wallet_id |-> wallet.wallet_id,
            wallet_address |-> wallet.address,
            private_key |-> wallet.private_key,
            device_id |-> Str(<<>>),
            device_category |-> Str(<<>>),
            devices_owned |-> F(0)]>>

\* one iteration of the loop of create_mapping_csv over self.wallets
Wm_detail ==
    /\ pc = "detail"
    /\ position < Len(wallets)
    /\ detailed_mappings' =
          detailed_mappings
            \o MappingRows(wallets[position + 1], WalletDevices(wallets[position + 1].wallet_id))
    /\ IF position + 1 < Len(wallets)
       THEN position' = position + 1 /\ pc' = pc
       ELSE position' = 0 /\ pc' = "write"
    /\ UNCHANGED <<mastervars, pvars, ds, source, raw_data, out, saved, err, run, first_out,
                   rngvars, results, tried, wallets, devices, assignments, summary_data>>

fieldnames == <<"wallet_id", "wallet_address", "private_key", "device_id",
                "device_category", "devices_owned">>

RECURSIVE Joined(_)
\* '; '.join(devices)
Joined(ids) ==
    IF Len(ids) = 1 THEN ids[1].s ELSE ids[1].s \o <<";", " ">> \o Joined(Tail(ids))

\* the number of the wallet's devices listed under the category
CategoryCount(ids, cat) ==
    Cardinality({n \in 1..Len(ids) : CategoryFrom(ids[n], 1) = CategoryText[cat]})

\* the row _create_summary_csv appends for a wallet
SummaryRow(wallet, ids) ==
    [wallet_id |-> wallet.wallet_id,
     wallet_address |-> wallet.address,
     total_devices |-> F(Len(ids)),
     by_category |-> [cat \in Range(device_categories) |-> F(CategoryCount(ids, cat))],
     device_list |-> Str(IF ids # <<>> THEN Joined(ids) ELSE <<"N", "o", "n", "e">>)]

\* csv.DictWriter: writeheader(), writerows(detailed_mappings), then
\* _create_summary_csv(summary_file, device_assignments)
Wm_write ==
    /\ pc = "write"
    /\ pc' = "done"
    /\ saved' = Table(fieldnames, detailed_mappings)
    /\ summary_data' = [n \in 1..Len(wallets) |->
                          SummaryRow(wallets[n], WalletDevices(wallets[n].wallet_id))]
    /\ UNCHANGED <<mastervars, pvars, ds, source, raw_data, out, err, run, first_out,
                   rngvars, results, tried, wallets, devices, assignments,
                   detailed_mappings, position>>

\* the script starts at main(), or create_mapping_csv is called on a
\* mapper without the generator having been seeded
InitWallet ==
    /\ ParserIdle
    /\ ds = "wallet"
    /\ pc \in {"main", "generate_wallets"}
    /\ source = None
    /\ raw_data = None
    /\ out = None
    /\ saved = None
    /\ err = "none"
    /\ run = 1
    /\ first_out = None
    /\ np_random = Generator(OsEntropy(1), 0)
    /\ py_random \in {Generator(OsEntropy(k), 0) : k \in 1..MaxShuffles}
    /\ drawn = NothingDrawn
    /\ results = <<>>
    /\ tried = <<>>
    /\ WalletIdle
    /\ MasterIdle

NextWallet ==
    \/ Wm_main
    \/ generate_wallets
    \/ Wm_flatten
    \/ Wm_shuffle
    \/ Wm_assign
    \/ Wm_detail
    \/ Wm_write

SpecWallet == InitWallet /\ [][NextWallet]_vars

----------------------------------------------------------------------------
(* Specification of the master runner: main() of
   run_all_transformations.py, from the directory of the scripts on *)

transformations == <<"environmental_fusion.py", "agriculture_transformation.py",
                     "health_privacy_protection.py", "network_performance_parsing.py",
                     "retail_pii_anonymization.py", "weather_unit_conversion.py">>

\* how subprocess.run([sys.executable, script_name]) can end: the script
\* exits with a status (negative when a signal ended it), or the call
\* raises because the process could not be started
Exited(code) == [t |-> "exited", returncode |-> code]
NotStarted == [t |-> "raised", returncode |-> 0 - 1]
Outcomes == {Exited(0), Exited(1), Exited(0 - 9), NotStarted}

\* variant: every status that is not negative counts as success
run_script_returns_NonNegative(o) == o.t = "exited" /\ o.returncode >= 0

\* what run_script returns: result.returncode == 0, and False from the
\* handler of the exception
run_script_returns(o) == o.t = "exited" /\ o.returncode = 0

\* one iteration of the loop of main(): success = run_script(script,
\* description), results.append((script, description, success))
Ms_transformation ==
    /\ pc = "transformations"
    /\ Len(results) < Len(transformations)
    /\ \E o \in Outcomes :
          /\ attempts' = Append(attempts,
                                [script |-> transformations[Len(results) + 1], outcome |-> o])
          /\ results' = Append(results,
                               [script |-> transformations[Len(results) + 1],
                                success |-> run_script_returns(o)])
    /\ pc' = IF Len(results) + 1 < Len(transformations) THEN pc ELSE "summary"
    /\ UNCHANGED <<test_results, pvars, ds, source, raw_data, out, saved, err, run, first_out, rngvars,
                   tried, walletvars, report>>

ALL_TRANSFORMED == <<"A", "L", "L", " ", "D", "A", "T", "A", "S", "E", "T", "S", " ", "S", "U", "C", "C", "E", "S", "S", "F", "U", "L", "L", "Y", " ", "T", "R", "A", "N", "S", "F", "O", "R", "M", "E", "D">>
SOME_FAILED == <<"S", "o", "m", "e", " ", "t", "r", "a", "n", "s", "f", "o", "r", "m", "a", "t", "i", "o", "n", "s", " ", "f", "a", "i", "l", "e", "d">>

\* the number of results with the given success
Counted(rs, success) == Cardinality({i \in DOMAIN rs : rs[i].success = success})

\* the summary report: the two counts, and the closing message
Ms_summary ==
    /\ pc = "summary"
    /\ pc' = "finished"
    /\ report' = [successful |-> Counted(results, TRUE),
                  failed |-> Counted(results, FALSE),
                  message |-> IF Counted(results, TRUE) = Len(transformations)
                              THEN ALL_TRANSFORMED ELSE SOME_FAILED]
    /\ UNCHANGED <<test_results, pvars, ds, source, raw_data, out, saved, err, run, first_out, rngvars,
                   results, tried, walletvars, attempts>>

InitMaster ==
    /\ ParserIdle
    /\ ds = "master"
    /\ pc = "transformations"
    /\ source = None
    /\ raw_data = None
    /\ out = None
    /\ saved = None
    /\ err = "none"
    /\ run = 1
    /\ first_out = None
    /\ np_random = Generator(OsEntropy(1), 0)
    /\ py_random = Generator(OsEntropy(1), 0)
    /\ drawn = NothingDrawn
    /\ results = <<>>
    /\ tried = <<>>
    /\ WalletIdle
    /\ MasterIdle

NextMaster ==
    \/ Ms_transformation
    \/ Ms_summary

SpecMaster == InitMaster /\ [][NextMaster]_vars

\* main() is not suspended for ever: subprocess.run waits for a script
\* that ends
SpecMasterLive == SpecMaster /\ WF_vars(NextMaster)

----------------------------------------------------------------------------
(* Specification of the smoke test: run_all_tests() of
   docker_simulator_test.py runs its five phases and reports *)

\* the most scripts that do not pass, and the most data files found
MaxFailing == 1
MaxFiles == 1

\* what run_transformation_tests records for a script
Status(s) == [status |-> s]

\* transformation_results: one entry per script, at most MaxFailing of them
\* with a status other than PASS
TransformationResults ==
    {r \in [Range(transformations) -> {Status(s) : s \in {"PASS", "FAIL", "TIMEOUT", "ERROR"}}] :
        Cardinality({script \in Range(transformations) : r[script].status # "PASS"}) <= MaxFailing}

St_run_transformation_tests ==
    /\ pc = "run_transformation_tests"
    /\ pc' = "test_lcore_node_connectivity"
    /\ \E r \in TransformationResults :
          test_results' = SetItem(test_results, "transformations", r)
    /\ UNCHANGED <<pvars, ds, source, raw_data, out, saved, err, run, first_out, rngvars,
                   results, tried, walletvars, attempts, report>>

\* the health check and the GraphQL query each pass or fail
St_test_lcore_node_connectivity ==
    /\ pc = "test_lcore_node_connectivity"
    /\ pc' = "test_data_integrity"
    /\ \E health_status \in BOOLEAN : \E graphql_status \in BOOLEAN :
          test_results' = SetItem(test_results, "node_connectivity",
                                  [health_check |-> health_status, graphql_api |-> graphql_status])
    /\ UNCHANGED <<pvars, ds, source, raw_data, out, saved, err, run, first_out, rngvars,
                   results, tried, walletvars, attempts, report>>

\* the files /tmp/*_transformed.csv the harness may find
DataFiles == {"environmental_transformed.csv", "agriculture_transformed.csv"}

\* what test_data_integrity records for a file that it read: the count of
\* the columns named like personal data, and the status from it
Checked(pii_violations) ==
    [pii_violations |-> pii_violations,
     status |-> IF pii_violations = 0 THEN "PASS" ELSE "PRIVACY_CONCERN"]

\* what it records for a file that it could not read
Unchecked == [status |-> "ERROR", error |-> "EmptyDataError"]

IntegrityResults ==
    UNION {[files -> {Checked(0), Checked(1), Unchecked}] :
              files \in {fs \in SUBSET DataFiles : Cardinality(fs) <= MaxFiles}}

St_test_data_integrity ==
    /\ pc = "test_data_integrity"
    /\ pc' = "test_device_authentication"
    /\ \E r \in IntegrityResults :
          test_results' = SetItem(test_results, "data_integrity", r)
    /\ UNCHANGED <<pvars, ds, source, raw_data, out, saved, err, run, first_out, rngvars,
                   results, tried, walletvars, attempts, report>>

St_test_device_authentication ==
    /\ pc = "test_device_authentication"
    /\ pc' = "run_performance_benchmark"
    /\ \E s \in {"PASS", "PARTIAL", "NO_DATA", "API_ERROR", "ERROR"} :
          test_results' = SetItem(test_results, "device_authentication", Status(s))
    /\ UNCHANGED <<pvars, ds, source, raw_data, out, saved, err, run, first_out, rngvars,
                   results, tried, walletvars, attempts, report>>

queries == {"query_1", "query_2", "query_3"}

\* benchmark_results: an entry for each query that was answered at least
\* once, all answered alike in the model, or the error of a request
BenchmarkResults ==
    {Status("ERROR"), [q \in {} |-> Status("PASS")]}
      \cup {[q \in queries |-> Status(s)] : s \in {"PASS", "SLOW"}}
      \cup {[q \in {"query_1"} |-> Status("SLOW")]}

St_run_performance_benchmark ==
    /\ pc = "run_performance_benchmark"
    /\ pc' = "generate_test_report"
    /\ \E r \in BenchmarkResults :
          test_results' = SetItem(test_results, "performance", r)
    /\ UNCHANGED <<pvars, ds, source, raw_data, out, saved, err, run, first_out, rngvars,
                   results, tried, walletvars, attempts, report>>

\* results.get('status')
get_status(r) == IF "status" \in DOMAIN r THEN r["status"] ELSE "None"

\* the tests and the failures generate_test_report counts for a category
TotalOf(category, r) ==
    IF category = "transformations" THEN Cardinality(DOMAIN r) + 1 ELSE 1

FailedOf(category, r) ==
    IF category = "transformations"
    THEN Cardinality({script \in DOMAIN r : get_status(r[script]) # "PASS"})
    ELSE IF get_status(r) \in {"FAIL", "ERROR", "TIMEOUT"} THEN 1 ELSE 0

RECURSIVE Sum(_, _)
\* the sum of f over the set
Sum(f, set) ==
    IF set = {} THEN 0
    ELSE f[CHOOSE x \in set : TRUE] + Sum(f, set \ {CHOOSE x \in set : TRUE})

\* report['test_summary'], with the counts over self.test_results.items()
St_generate_test_report ==
    /\ pc = "generate_test_report"
    /\ pc' = "run_all_tests"
    /\ report' =
         [overall_status |->
              IF Sum([c \in DOMAIN test_results |-> FailedOf(c, test_results[c])],
                     DOMAIN test_results) > 0
              THEN "FAIL" ELSE "PASS",
          failed_tests |-> Sum([c \in DOMAIN test_results |-> FailedOf(c, test_results[c])],
                               DOMAIN test_results),
          total_tests |-> Sum([c \in DOMAIN test_results |-> TotalOf(c, test_results[c])],
                              DOMAIN test_results),
          passed_tests |->
              Sum([c \in DOMAIN test_results |-> TotalOf(c, test_results[c])], DOMAIN test_results)
                - Sum([c \in DOMAIN test_results |-> FailedOf(c, test_results[c])],
                      DOMAIN test_results)]
    /\ UNCHANGED <<pvars, ds, source, raw_data, out, saved, err, run, first_out, rngvars,
                   results, tried, walletvars, attempts, test_results>>

\* return report['test_summary']['overall_status'] == "PASS"
St_run_all_tests ==
    /\ pc = "run_all_tests"
    /\ pc' = "finished"
    /\ results' = <<report.overall_status = "PASS">>
    /\ UNCHANGED <<pvars, ds, source, raw_data, out, saved, err, run, first_out, rngvars,
                   tried, walletvars, mastervars>>

InitSmoke ==
    /\ ParserIdle
    /\ ds = "smoke"
    /\ pc = "run_transformation_tests"
    /\ source = None
    /\ raw_data = None
    /\ out = None
    /\ saved = None
    /\ err = "none"
    /\ run = 1
    /\ first_out = None
    /\ np_random = Generator(OsEntropy(1), 0)
    /\ py_random = Generator(OsEntropy(1), 0)
    /\ drawn = NothingDrawn
    /\ results = <<>>
    /\ OthersIdle

NextSmoke ==
    \/ St_run_transformation_tests
    \/ St_test_lcore_node_connectivity
    \/ St_test_data_integrity
    \/ St_test_device_authentication
    \/ St_run_performance_benchmark
    \/ St_generate_test_report
    \/ St_run_all_tests

SpecSmoke == InitSmoke /\ [][NextSmoke]_vars

----------------------------------------------------------------------------
(* Properties of the unit parsers (SpecParse) *)

\* the number the written numeral denotes, from its parts
Magnitude(p) ==
    (IF p.int = NoInt THEN 0 ELSE p.int * FixedOne)
      + (IF p.frac = <<>> THEN 0
         ELSE (DigitsValue(p.frac) * FixedOne) \div Pow10(Len(p.frac)))

SignedValue(p) == IF p.sign = <<"-">> THEN 0 - Magnitude(p) ELSE Magnitude(p)

\* a numeral of the declared shape \d+(\.\d+)?
PlainNumeral(p) == p.sign = <<>> /\ p.int # NoInt

\* a numeral of the shape [+-]?\d+(\.\d+)?
SignedNumeral(p) == p.int # NoInt

HasNoNumeral(p) == p.int = NoInt /\ p.frac = <<>>

\* the unit literals each extract_* function declares
UnitsOf(parser) ==
    CASE parser = "signal_strength" -> {dBm}
      [] parser = "latency" -> {ms}
      [] parser = "bandwidth" -> {Mbps, Kbps}
      [] parser = "percentage" -> {Pct}
      [] OTHER -> {}

\* the text u begins with the literal lit
BeginsWith(u, lit) == Len(lit) <= Len(u) /\ SubSeq(u, 1, Len(lit)) = lit

\* divisor that brings a value in the unit to the canonical unit
ScaleOf(unit) == IF unit = Kbps THEN 1000 ELSE 1

\* C1: extract_bandwidth normalises a valid bandwidth text to Mbps: for a
\* numeral N of the declared shape, "N Mbps" yields N and "N Kbps" yields
\* N/1000, so the result times the unit's scale factor is the numeral.
C1_BandwidthNormalisedToMbps ==
    (op = "bandwidth" /\ PlainNumeral(src) /\ src.unit \in {Mbps, Kbps})
        => /\ result.t = "num"
           /\ result.n * ScaleOf(src.unit) = Magnitude(src)

C1_Witness ==
    /\ op = "bandwidth"
    /\ src = [sign |-> <<>>, int |-> 100, frac |-> <<>>, spaces |-> 1, unit |-> Kbps]
    /\ value = Str(<<"1", "0", "0", " ", "K", "b", "p", "s">>)
    /\ result = Num(FixedOne \div 10)

\* the input is null, empty, a unit with no numeral, or a numeral whose
\* unit does not begin with a unit literal of the parser
Malformed(p, parser) ==
    \/ isna(CellOf(p))
    \/ HasNoNumeral(p)
    \/ \A lit \in UnitsOf(parser) : ~BeginsWith(p.unit, lit)

\* C2: on a null, empty or malformed input each of the four parsers returns
\* the missing value and does not raise; and no parser returns 0 unless the
\* numeral written in the text denotes 0.
C2_MalformedIsMissingNeverZero ==
    op # "none" =>
        /\ result.t # "raise"
        /\ Malformed(src, op) => result = NaN
        /\ result = Num(0) => (~HasNoNumeral(src) /\ Magnitude(src) = 0)

C2_Witness ==
    /\ op = "latency"
    /\ src.int = 30
    /\ src.frac = <<>>
    /\ src.unit = <<"G", "b", "p", "s">>
    /\ result = NaN

LowerChar(c) ==
    CASE c = "B" -> "b" [] c = "D" -> "d" [] c = "K" -> "k" [] c = "M" -> "m"
      [] c = "P" -> "p" [] c = "S" -> "s" [] c = "G" -> "g" [] OTHER -> c

Lower(u) == [i \in 1..Len(u) |-> LowerChar(u[i])]

\* C3: unit recognition is case- and spacing-tolerant: a plain numeral
\* followed by a recognised unit in any letter case, after any number of
\* spaces, parses to the value the canonical spelling gives.
C3_CaseAndSpacingTolerant ==
    \A lit \in UnitsOf(op) :
        (PlainNumeral(src) /\ Lower(src.unit) = Lower(lit))
            => /\ result.t = "num"
               /\ result.n * ScaleOf(lit) = Magnitude(src)

\* C4: numeric capture accepts an optional sign in every parser: a signed
\* numeral followed by a recognised unit parses to that signed numeral.
C4_SignedNumeralKept ==
    (op # "none" /\ SignedNumeral(src) /\ src.unit \in UnitsOf(op))
        => /\ result.t = "num"
           /\ result.n * ScaleOf(src.unit) = SignedValue(src)

----------------------------------------------------------------------------
(* Properties of the dataset pipelines (Spec) *)

Built == out # None

\* C5: in the network pipeline output row i carries the values parsed from
\* input row i: each parsed field of the row is what its parser gives for
\* the source text of the same row, "-75 dBm" giving -75.0; no value moves
\* to another row.
C5_RowsKeepTheirValues ==
    (ds = "network" /\ Built) =>
        /\ NumRows(out) = NumRows(source)
        /\ \A i \in 1..NumRows(out) :
            /\ out.rows[i]["signal_strength_dbm"]
                 = extract_signal_strength(source.rows[i]["Signal_Strength"])
            /\ out.rows[i]["latency_ms"]
                 = extract_latency(source.rows[i]["Latency"])
            /\ out.rows[i]["required_bandwidth_mbps"]
                 = extract_bandwidth(source.rows[i]["Required_Bandwidth"])
            /\ out.rows[i]["allocated_bandwidth_mbps"]
                 = extract_bandwidth(source.rows[i]["Allocated_Bandwidth"])
            /\ out.rows[i]["resource_utilization"]
                 = extract_percentage(source.rows[i]["Resource_Allocation"])
            /\ source.rows[i]["Signal_Strength"] = Str(<<"-", "7", "5", " ", "d", "B", "m">>)
                 => out.rows[i]["signal_strength_dbm"] = Num((0 - 75) * FixedOne)
            /\ source.rows[i]["Required_Bandwidth"] = Str(<<"1", "0", "0", " ", "K", "b", "p", "s">>)
                 => out.rows[i]["required_bandwidth_mbps"] = Num(FixedOne \div 10)

C5_Witness ==
    /\ ds = "network"
    /\ Built
    /\ NumRows(out) = 2
    /\ source.rows[1]["Signal_Strength"] = Str(<<"-", "6", "0", " ", "d", "B", "m">>)
    /\ source.rows[2]["Signal_Strength"] = Str(<<"-", "7", "5", " ", "d", "B", "m">>)
    /\ out.rows[1]["signal_strength_dbm"] = Num((0 - 60) * FixedOne)
    /\ out.rows[2]["signal_strength_dbm"] = Num((0 - 75) * FixedOne)
    /\ out.rows[2]["latency_ms"] = Num(30 * FixedOne)

\* the source field each Celsius output field is derived from
CelsiusSource == [temperature_celsius |-> "temp", feels_like_celsius |-> "feelslike",
                  dew_point_celsius |-> "dew"]

\* c is (f - 32) * 5/9 to the resolution of the numbers
IsCelsiusOf(c, f) ==
    /\ 9 * c - 5 * (f - 32 * FixedOne) < 9
    /\ 5 * (f - 32 * FixedOne) - 9 * c < 9

\* C6: every present temp, feelslike and dew value f is converted to
\* (f - 32) * 5/9 in the Celsius output field of the same row; 32 gives 0,
\* 212 gives 100 and 68 gives 20; temperature_celsius is derived from temp.
C6_CelsiusFormula ==
    (ds = "weather" /\ Built) =>
        \A i \in 1..NumRows(out) : \A field \in DOMAIN CelsiusSource :
            (/\ HasColumn(source, CelsiusSource[field])
             /\ source.rows[i][CelsiusSource[field]].t = "num")
            => /\ out.rows[i][field].t = "num"
               /\ IsCelsiusOf(out.rows[i][field].n, source.rows[i][CelsiusSource[field]].n)
               /\ source.rows[i][CelsiusSource[field]] = F(32) => out.rows[i][field] = F(0)
               /\ source.rows[i][CelsiusSource[field]] = F(212) => out.rows[i][field] = F(100)
               /\ source.rows[i][CelsiusSource[field]] = F(68) => out.rows[i][field] = F(20)

C6_Witness ==
    /\ ds = "weather"
    /\ Built
    /\ NumRows(out) = 2
    /\ HasColumn(source, "temp") /\ HasColumn(source, "feelslike") /\ HasColumn(source, "dew")
    /\ source.rows[2]["temp"] = F(68)
    /\ out.rows[2]["temperature_celsius"] = F(20)
    /\ out.rows[2]["feels_like_celsius"] = F(0)
    /\ out.rows[2]["dew_point_celsius"] = F(100)
    /\ source.rows[1]["temp"] = F(33)
    /\ out.rows[1]["temperature_celsius"] = Num(555555)

\* C7: the temperature deriver never fails: a missing Fahrenheit value gives
\* a missing Celsius value, a present one a present one, and an absent
\* temperature column leaves its Celsius output field missing in every row;
\* no run ends in the conversion step, and none ends in the schema step
\* unless a column other than the temperature columns is absent.
C7_DeriverTotal ==
    ds = "weather" =>
        /\ err # "convert_fahrenheit_to_celsius"
        /\ err = "create_schema_compliant_format"
             => \E c \in WeatherRequired \ {"device_id", "timestamp_unix"} :
                   ~HasColumn(source, c)
        /\ Built =>
             \A i \in 1..NumRows(out) : \A field \in DOMAIN CelsiusSource :
                 IF HasColumn(source, CelsiusSource[field])
                      /\ source.rows[i][CelsiusSource[field]].t = "num"
                 THEN out.rows[i][field].t = "num"
                 ELSE out.rows[i][field] = NaN

C7_Witness ==
    /\ ds = "weather"
    /\ Built
    /\ pc = "done"
    /\ NumRows(out) = 2
    /\ ~HasColumn(source, "temp")
    /\ HasColumn(source, "feelslike")
    /\ isna(source.rows[1]["feelslike"])
    /\ \A i \in 1..2 : out.rows[i]["temperature_celsius"] = NaN
    /\ out.rows[1]["feels_like_celsius"] = NaN
    /\ out.rows[2]["feels_like_celsius"] = F(10)

\* the pipelines whose schema mapping C8 names
RowPreserving == {"agriculture", "health", "network", "retail", "weather"}

\* C8: the schema mapping step neither drops nor adds rows: for the
\* agriculture, health, network, retail and weather pipelines the output
\* table has as many rows as the working table it was built from, and the
\* working table has as many rows as the loaded input.
C8_RowCountPreserved ==
    ds \in RowPreserving =>
        /\ raw_data # None => NumRows(raw_data) = NumRows(source)
        /\ Built => NumRows(out) = NumRows(raw_data)

C8_Witness ==
    /\ ds = "health"
    /\ pc = "done"
    /\ NumRows(source) = 2
    /\ NumRows(out) = 2
    /\ isna(out.rows[2]["heart_rate"])

\* the key of the row at position i of the output table
KeyOf(i) ==
    CASE ds = "agriculture" -> raw_data.rows[i]["plot_id"]
      [] ds = "health" -> raw_data.rows[i]["Device_ID"]
      [] ds = "retail" -> out.rows[i]["store_region"]
      [] ds = "environmental" -> [location_id |-> out.rows[i]["location_id"],
                                  sensor_type |-> out.rows[i]["sensor_type"]]

Keyed == {"agriculture", "environmental", "health", "retail"}

\* C9 as stated: within one run, records with an identical key (agriculture
\* plot id, environmental location id and sensor type, health Device_ID,
\* retail store region) always receive the same device_id.
C9_SameKeySameId ==
    (ds \in Keyed /\ Built) =>
        \A i \in 1..NumRows(out) : \A j \in 1..NumRows(out) :
            KeyOf(i) = KeyOf(j) => out.rows[i]["device_id"] = out.rows[j]["device_id"]

\* text[:-1]
ButLast(text) == SubSeq(text, 1, Len(text) - 1)

\* C9 as amended: within one run, records with an identical agriculture
\* plot id, environmental location id and sensor type, or health Device_ID
\* receive the same device_id; records with an identical retail store
\* region receive device_ids that agree up to the final store number, which
\* is one of 1, 2, 3 for each record.
C9_SameKeySameIdUpToStore ==
    (ds \in Keyed /\ Built) =>
        \A i \in 1..NumRows(out) : \A j \in 1..NumRows(out) :
            KeyOf(i) = KeyOf(j) =>
                IF ds = "retail"
                THEN /\ ButLast(out.rows[i]["device_id"].s) = ButLast(out.rows[j]["device_id"].s)
                     /\ out.rows[i]["device_id"].s[Len(out.rows[i]["device_id"].s)] \in {"1", "2", "3"}
                ELSE out.rows[i]["device_id"] = out.rows[j]["device_id"]

C9_Witness ==
    /\ ds = "environmental"
    /\ pc = "done"
    /\ \E i \in 1..NumRows(out) : \E j \in 1..NumRows(out) :
          /\ i < j
          /\ out.rows[i]["sensor_type"] = water_quality
          /\ out.rows[i]["ph_level"] # out.rows[j]["ph_level"]
          /\ KeyOf(i) = KeyOf(j)
          /\ out.rows[i]["device_id"] = Str(<<"d", "i", "d", ":", "l", "c", "o", "r", "e", ":", "e", "n", "v", "-", "L", "1", "-", "w", "a", "t", "e", "r">>)
          /\ out.rows[j]["device_id"] = Str(<<"d", "i", "d", ":", "l", "c", "o", "r", "e", ":", "e", "n", "v", "-", "L", "1", "-", "w", "a", "t", "e", "r">>)

\* the identifiers of a table
Identifiers(df) == {df.rows[i]["device_id"] : i \in 1..NumRows(df)}

IdentityKeys == {<<"R", "1">>, <<"R", "2">>, <<"n", "a", "n">>, <<"L", "1">>, <<"L", "2">>,
                 <<"1">>, <<"2">>, <<"D", "e", "v", "i", "c", "e", "_", "1">>,
                 <<"a", "i", "r">>, <<"w", "a", "t", "e", "r">>}

Categories == {"agri", "env-air", "env-water", "health-tracker", "cell-tower", "retail",
               "weather-station"}

\* the identifiers the generators produce, by category
Generated ==
    ("agri" :> {Str(AgriPrefix \o py_str(Str(k))) : k \in IdentityKeys})
    @@ ("env-air" :> {Str(EnvPrefix \o py_str(Str(k)) \o AirSuffix) : k \in IdentityKeys})
    @@ ("env-water" :> {Str(EnvPrefix \o py_str(Str(k)) \o WaterSuffix) : k \in IdentityKeys})
    @@ ("health-tracker" :> {health_tracker_id(Str(k)) : k \in IdentityKeys})
    @@ ("cell-tower" :> {Str(CellTowerPrefix \o IntText(n)) : n \in 1..9})
    @@ ("retail" :> {create_store_device_id(kc_neighborhoods[r], n) :
                        r \in DOMAIN kc_neighborhoods, n \in StoreNumbers})
    @@ ("weather-station" :> {Str(WeatherStationPrefix \o IntText(n)) : n \in 1..num_stations})

\* the identifiers the generator of a category produces
Produced(c) == Generated[c]

\* the category of the row at position i of the output table
CategoryAt(i) ==
    CASE ds = "agriculture" -> "agri"
      [] ds = "health" -> "health-tracker"
      [] ds = "network" -> "cell-tower"
      [] ds = "retail" -> "retail"
      [] ds = "weather" -> "weather-station"
      [] ds = "environmental" ->
             IF out.rows[i]["sensor_type"] = air_quality THEN "env-air" ELSE "env-water"

\* no device id is listed twice by the wallet mapper
ListedOnce == Cardinality(Range(all_devices)) = Len(all_devices)

\* C11: the identifier space is partitioned by category: a device_id that
\* a pipeline writes for one category equals no device_id that the
\* generator of another category produces for any key, an environmental
\* air sensor id equals no water sensor id, and the device ids the wallet
\* mapper lists are pairwise distinct.
C11_CategoriesDisjoint ==
    /\ Built =>
          \A i \in 1..NumRows(out) : \A c \in Categories \ {CategoryAt(i)} :
              out.rows[i]["device_id"] \notin Produced(c)
    /\ ListedOnce

C11_Witness ==
    /\ ds = "environmental"
    /\ pc = "done"
    /\ \E i \in 1..NumRows(out) : \E j \in 1..NumRows(out) :
          /\ CategoryAt(i) = "env-air"
          /\ CategoryAt(j) = "env-water"
          /\ out.rows[i]["location_id"] = out.rows[j]["location_id"]
          /\ out.rows[i]["device_id"] \in Produced("env-air")
          /\ out.rows[j]["device_id"] \in Produced("env-water")
          /\ out.rows[j]["device_id"] \in Range(Column(out, "device_id")) \ Produced("env-air")

\* the literal a generator writes before the key
PrefixOf(c) ==
    CASE c = "agri" -> AgriPrefix
      [] c = "env-air" -> EnvPrefix
      [] c = "env-water" -> EnvPrefix
      [] c = "health-tracker" -> HealthTrackerPrefix
      [] c = "cell-tower" -> CellTowerPrefix
      [] c = "retail" -> RetailPrefix
      [] c = "weather-station" -> WeatherStationPrefix

\* the literal a generator writes after the key, the retail store number
\* (one character) included
SuffixLength(c) ==
    CASE c = "env-air" -> Len(AirSuffix)
      [] c = "env-water" -> Len(WaterSuffix)
      [] c = "retail" -> Len(StoreInfix) + 1
      [] OTHER -> 0

BeginsWithText(text, lit) == Len(text) >= Len(lit) /\ SubSeq(text, 1, Len(lit)) = lit

\* the part of an identifier of category c that comes from the key
KeyPart(text, c) == SubSeq(text, Len(PrefixOf(c)) + 1, Len(text) - SuffixLength(c))

\* lowercase letters, digits and the hyphen
SafeCharset == Range(Lowercase) \cup Range(Digits) \cup {"-"}

\* C12 as stated: every generated device_id is the category prefix followed
\* by a normalised key: the key part holds no uppercase letter, no
\* whitespace and no character outside the safe identifier charset.
C12_KeyNormalised ==
    Built =>
        \A i \in 1..NumRows(out) :
            /\ BeginsWithText(out.rows[i]["device_id"].s, PrefixOf(CategoryAt(i)))
            /\ Range(KeyPart(out.rows[i]["device_id"].s, CategoryAt(i))) \subseteq SafeCharset

\* the text the generator of the row at position i is given as its key
KeyText(i) ==
    CASE ds = "agriculture" -> py_str(raw_data.rows[i]["plot_id"])
      [] ds = "environmental" -> py_str(out.rows[i]["location_id"])
      [] ds = "health" -> raw_data.rows[i]["Device_ID"].s
      [] ds = "retail" -> out.rows[i]["store_region"].s

\* the text without the characters of Device_ where it occurs
WithoutDevice_(text) == py_replace(text, Device_, <<>>)

\* C12 as amended: every generated device_id begins with the prefix of its
\* category; only the retail generator normalises its key, so the key part
\* of a retail id is made of lowercase letters, digits and hyphens; the
\* agriculture and environmental generators write the key text unchanged,
\* uppercase letters included, and the health generator writes Device_ID
\* without "Device_".
C12_KeyNormalisedForRetailOnly ==
    Built =>
        \A i \in 1..NumRows(out) :
            /\ BeginsWithText(out.rows[i]["device_id"].s, PrefixOf(CategoryAt(i)))
            /\ ds = "retail" =>
                  /\ Range(KeyPart(out.rows[i]["device_id"].s, "retail")) \subseteq SafeCharset
                  /\ Len(KeyPart(out.rows[i]["device_id"].s, "retail")) >= Len(KeyText(i))
            /\ ds \in {"agriculture", "environmental"} =>
                  KeyPart(out.rows[i]["device_id"].s, CategoryAt(i)) = KeyText(i)
            /\ ds = "health" =>
                  KeyPart(out.rows[i]["device_id"].s, "health-tracker") = WithoutDevice_(KeyText(i))

C12_Witness ==
    /\ ds = "retail"
    /\ pc = "done"
    /\ \E i \in 1..NumRows(out) :
          /\ KeyText(i) = kc_neighborhoods[6]
          /\ KeyPart(out.rows[i]["device_id"].s, "retail")
               = <<"p", "o", "w", "e", "r", "-", "a", "n", "d", "-", "l", "i", "g", "h", "t", "-", "d", "i", "s", "t", "r", "i", "c", "t">>

\* the columns declared as personal data, by dataset
DeclaredPII ==
    CASE ds = "retail" -> pii_columns_to_remove
      [] ds = "health" -> {"Location"}
      [] ds = "network" -> {"User_ID"}
      [] ds = "weather" -> {"name", "stations"}
      [] ds = "environmental" -> pii_columns
      [] ds = "agriculture" -> {}

\* the table of the input file that holds the personal data
PersonalTable == IF ds = "environmental" THEN source.air ELSE source

\* the values, other than missing ones, of the cells of the columns cs
CellsOf(df, cs) ==
    {df.rows[i][c] : i \in 1..NumRows(df), c \in cs \cap Range(df.columns)} \ {NaN}

\* C13: no declared PII column survives into the output: whether or not
\* the input table holds the declared PII columns, none of their names is
\* a field name of the output table and none of their values is the value
\* of an output field.
C13_NoPersonalDataInOutput ==
    Built =>
        /\ DeclaredPII \cap Range(out.columns) = {}
        /\ CellsOf(PersonalTable, DeclaredPII) \cap CellsOf(out, Range(out.columns)) = {}

C13_Witness ==
    /\ ds = "retail"
    /\ pc = "done"
    /\ NumRows(out) = 2
    /\ HasColumn(source, "CUSTOMERNAME")
    /\ ~HasColumn(source, "ADDRESSLINE2")
    /\ Cardinality(CellsOf(source, DeclaredPII)) >= 5
    /\ saved = out

\* the last k names of a list of columns
LastColumns(columns, k) == SubSeq(columns, Len(columns) - k + 1, Len(columns))

\* C14: every output table has the fixed target fields in the declared
\* order: device_id, owner_address and timestamp (integer seconds) come
\* first, the domain fields follow, encrypted_data and data_hash come last;
\* owner_address and the two trailing fields hold their fixed placeholder
\* string in every row; for all six outputs, the combined environmental
\* output included.
C14_FixedTargetFields ==
    pc = "done" =>
        /\ Len(saved.columns) >= 5
        /\ SubSeq(saved.columns, 1, 3) = <<"device_id", "owner_address", "timestamp">>
        /\ LastColumns(saved.columns, 2) = <<"encrypted_data", "data_hash">>
        /\ \A i \in 1..NumRows(saved) :
              /\ saved.rows[i]["owner_address"] = PLACEHOLDER_FOR_CARTESI
              /\ saved.rows[i]["timestamp"].t = "num"
              /\ saved.rows[i]["encrypted_data"] = CARTESI_GENERATED
              /\ saved.rows[i]["data_hash"] = CARTESI_GENERATED

\* the column of parsed instants that a pipeline converts
TimeColumn ==
    CASE ds = "network" -> "Timestamp"
      [] ds = "health" -> "Timestamp"
      [] ds = "weather" -> "datetime"
      [] ds = "retail" -> "ORDERDATE"
      [] ds = "agriculture" -> "timestamp"
      [] ds = "environmental" -> "timestamp"

\* the table that holds the instants and the whole seconds side by side
Converted == IF ds = "environmental" THEN out ELSE raw_data

\* n is the whole second the instant lies in: the instant is n seconds and
\* a fraction of at least 0 and less than 1 second
WholeSecondOf(stamp, n) ==
    /\ (stamp.sec - n) * TicksPerSecond + stamp.sub >= 0
    /\ (stamp.sec - n) * TicksPerSecond + stamp.sub < TicksPerSecond

\* C15: the output timestamp is the parsed instant truncated, not rounded,
\* to whole Unix seconds: for every parsed instant, those with a fraction
\* of a second and those before 1970 included, the integer written is the
\* whole second the instant lies in, never the next one and never the one
\* before.
C15_TimestampTruncated ==
    /\ (Converted # None /\ HasColumn(Converted, "timestamp_unix")) =>
          \A i \in 1..NumRows(Converted) :
              ~isna(Converted.rows[i][TimeColumn]) =>
              /\ Converted.rows[i]["timestamp_unix"].t = "num"
              /\ WholeSecondOf(Converted.rows[i][TimeColumn], Converted.rows[i]["timestamp_unix"].n)
    /\ (Built /\ ds # "environmental") =>
          \A i \in 1..NumRows(out) : out.rows[i]["timestamp"] = raw_data.rows[i]["timestamp_unix"]

C15_Witness ==
    /\ ds = "health"
    /\ pc = "done"
    /\ \E i \in 1..NumRows(out) : \E j \in 1..NumRows(out) :
          /\ raw_data.rows[i]["Timestamp"] = Stamp(0, 0 - 500)
          /\ out.rows[i]["timestamp"] = Num(0 - 1)
          /\ raw_data.rows[j]["Timestamp"] = Stamp(86460, 250)
          /\ out.rows[j]["timestamp"] = Num(86460)

\* the output fields that are not measurements: identifiers, labels,
\* placeholders and the environmental date/time
NonNumericFields == {"device_id", "owner_address", "encrypted_data", "data_hash",
                     "application_type", "plant_class", "activity_type",
                     "product_category", "store_region", "store_country",
                     "transaction_size", "conditions", "location_id", "sensor_type"}
                        \cup (IF ds = "environmental" THEN {"timestamp"} ELSE {})

\* C16: every output record has a non-null device_id and a non-null
\* timestamp, and every numeric output field is a number or explicitly
\* null, never a raw unit string; for every row of every input, rows whose
\* source key, source date or source measurement string is missing
\* included.
C16_IdentifiedStampedNumeric ==
    Built =>
        \A i \in 1..NumRows(out) :
            /\ out.rows[i]["device_id"].t = "str"
            /\ out.rows[i]["timestamp"].t \in {"num", "time"}
            /\ HasColumn(out, "timestamp_unix") => out.rows[i]["timestamp_unix"].t = "num"
            /\ \A c \in Range(out.columns) \ NonNumericFields :
                  out.rows[i][c].t \in {"num", "na"}

C16_Witness ==
    /\ ds = "network"
    /\ Built
    /\ \E i \in 1..NumRows(out) : \E j \in 1..NumRows(out) :
          /\ isna(source.rows[i]["Timestamp"])
          /\ isna(source.rows[i]["Latency"])
          /\ out.rows[i]["timestamp"] = Num(NaTSeconds)
          /\ isna(out.rows[i]["latency_ms"])
          /\ out.rows[i]["device_id"] \in Produced("cell-tower")
          /\ source.rows[j]["Required_Bandwidth"].t = "str"
          /\ out.rows[j]["required_bandwidth_mbps"].t = "num"

----------------------------------------------------------------------------
(* Order of the field transforms *)

\* the tables a script works on, by name
Working(data) ==
    IF data \in {None} \cup Unreadable THEN <<>>
    ELSE IF ds = "environmental" THEN data
    ELSE [raw_data |-> data]

\* the fields of the working tables
Fields(data) ==
    UNION {{<<t, c>> : c \in Range(Working(data)[t].columns)} : t \in DOMAIN Working(data)}

Values(data, f) == Column(Working(data)[f[1]], f[2])

\* the fields that hold what no column of the input file of their table holds
Derived(data) ==
    {f \in Fields(data) :
        \A g \in Fields(source) : g[1] = f[1] => Values(source, g) # Values(data, f)}

\* the fields a step takes away
Removed(data, next) == Fields(data) \ Fields(next)

\* those of them whose values the step keeps under a new name
Renamed(data, next) ==
    {f \in Removed(data, next) :
        \E g \in Fields(next) \ Fields(data) :
            g[1] = f[1] /\ Values(next, g) = Values(data, f)}

\* a step of a run that has derived a field
AfterDerive == raw_data # None /\ raw_data' # None /\ Derived(raw_data) # {}

----------------------------------------------------------------------------
(* Order of the stages *)

\* the calls of main() of each script, in the order they are written
StepsOf(d) ==
    CASE d = "network" ->
           <<"load_dataset", "audit_privacy_risks", "remove_user_ids",
             "parse_signal_strength", "parse_latency", "parse_bandwidth",
             "parse_resource_allocation", "create_cell_tower_device_ids",
             "convert_timestamps", "create_schema_compliant_format",
             "validate_parsing_results", "save_parsed_data", "done">>
      [] d = "weather" ->
           <<"load_dataset", "analyze_temperature_data", "remove_location_identifiers",
             "convert_fahrenheit_to_celsius", "create_weather_station_device_ids",
             "convert_timestamps", "create_schema_compliant_format",
             "validate_conversion_results", "save_converted_data", "done">>
      [] d = "agriculture" ->
           <<"load_dataset", "analyze_data_structure", "remove_redundant_variables",
             "standardize_column_names", "generate_iot_timestamps", "create_device_ids",
             "create_schema_compliant_format", "validate_transformation",
             "save_transformed_data", "done">>
      [] d = "health" ->
           <<"load_dataset", "audit_privacy_risks", "remove_location_data",
             "convert_device_ids", "convert_timestamps", "create_schema_compliant_format",
             "validate_privacy_protection", "save_protected_data", "done">>
      [] d = "retail" ->
           <<"load_dataset", "audit_pii_risks", "display_kc_neighborhoods",
             "remove_all_pii", "anonymize_store_locations", "create_retail_device_ids",
             "convert_timestamps", "create_schema_compliant_format",
             "validate_anonymization_results", "save_anonymized_data", "done">>
      [] d = "environmental" ->
           <<"load_datasets", "analyze_data_quality", "remove_pii_data",
             "generate_timestamps_for_water", "assign_water_sensors_to_locations",
             "create_device_ids", "standardize_column_names", "combine_datasets",
             "validate_fusion_results", "save_transformed_data", "done">>

\* the step written after step s, none after the end or the failure of a run
Following(steps, s) ==
    {steps[i + 1] : i \in {k \in 1..(Len(steps) - 1) : steps[k] = s}}

ValidateSteps == {"validate_parsing_results", "validate_conversion_results",
                  "validate_transformation", "validate_privacy_protection",
                  "validate_anonymization_results", "validate_fusion_results"}

\* the working tables carry device identifiers
Identified(data) == \E f \in Fields(data) : f[2] = "device_id"

\* the working tables carry the instants the script assigns
Stamped(data) ==
    \E f \in Fields(data) \ Fields(source) : f[2] \in {"timestamp", "timestamp_unix"}

\* every step of one execution runs the step written next, or fails
OneShot == run' = run /\ results' = results => pc' \in Following(StepsOf(ds), pc) \cup {"failed"}

\* the schema mapping comes after both assignments, validation after it,
\* persisting after validation
MappedLate ==
    /\ out = None /\ out' # None => Identified(raw_data) /\ Stamped(raw_data)
    /\ pc \in ValidateSteps => out # None
    /\ saved' # saved => pc' = "done" /\ out # None /\ saved' = out'
                         /\ \E v \in ValidateSteps : pc \in Following(StepsOf(ds), v)

TimestampFirst == {"agriculture", "environmental"}

----------------------------------------------------------------------------
(* Persisting *)

\* what the output file held when this execution began
SavedBefore == IF run = 1 THEN None ELSE first_out

\* C19: until every step before the save step has ended without an error
\* the output file holds what it held when the execution began, and so it
\* does after a step has raised; the file written is the validated table
C19_NoPartialOutput ==
    /\ pc # "done" => saved = SavedBefore
    /\ pc = "failed" => err \in Range(StepsOf(ds))
    /\ pc = "done" => err = "none" /\ saved = out

\* the validation of the network table raised on a missing instant: the
\* table is built and no file is written
C19_Witness ==
    /\ ds = "network"
    /\ pc = "failed"
    /\ err = "validate_parsing_results"
    /\ out # None
    /\ NumRows(out) > 0
    /\ saved = None

----------------------------------------------------------------------------
(* Load errors *)

\* C20: when the input file cannot be read, load raises and ends the run:
\* nothing is loaded, built or written, no step runs after it, and
\* run_script reports the execution as failed
C20_LoadErrorFatal ==
    source \in Unreadable =>
        /\ pc \in {FirstStep(ds), "failed"}
        /\ pc = "failed" => err = FirstStep(ds)
        /\ raw_data = None /\ out = None /\ saved = None
        /\ run = 1
        /\ results \in {<<>>, <<FALSE>>}
        /\ results # <<>> => pc = "failed"

\* the weather file is absent, the script has ended and run_script has
\* returned False
C20_Witness ==
    /\ ds = "weather"
    /\ source = FileNotFoundError
    /\ pc = "failed"
    /\ err = "load_dataset"
    /\ results = <<FALSE>>

----------------------------------------------------------------------------
(* Absent source columns *)

\* the fields the schema mappers read with a default: target field, column
\* of the working table, default
Defaulted ==
    ("agriculture" :>
        ({<<c, c, NaN>> : c \in {"chlorophyll_avg", "height_rate", "wet_weight_vegetative",
                                 "leaf_area_avg", "leaf_count_avg", "root_diameter_avg",
                                 "root_dry_weight", "dry_matter_vegetative",
                                 "root_length_avg"}}
           \cup {<<"plant_class", "plant_class", unknown>>}))
    @@ ("weather" :> {<<"temperature_celsius", "temp_celsius", NaN>>,
                      <<"feels_like_celsius", "feelslike_celsius", NaN>>,
                      <<"dew_point_celsius", "dew_celsius", NaN>>})

\* the columns the schema mappers read without a default
Undefaulted ==
    ("weather" :> WeatherRequired) @@ ("health" :> HealthRequired)
    @@ ("retail" :> RetailRequired)

----------------------------------------------------------------------------
(* Validation *)

\* C23: the validation step reads only and never fails as a whole: it
\* leaves the working table, the output table and the file as they are and
\* ends normally, whatever the output table lacks
C23_ValidationReadOnlyAndTotal ==
    [][(pc \in ValidateSteps) =>
          (out' = out /\ raw_data' = raw_data /\ saved' = saved /\ pc' # "failed")]_vars

----------------------------------------------------------------------------
(* Assignment by turns *)

\* every value of the series is in the pool, and no pool member is
\* assigned more than once more often than another
Balanced(series, pool) ==
    /\ Range(series) \subseteq pool
    /\ \A a \in pool : \A b \in pool : Count(series, a) - Count(series, b) <= 1

\* the number of pool members that sort before the text v
Rank(v, pool) == Cardinality({u \in pool : TextBefore(u.s, v.s, 1)})

\* the water table carries the locations assigned to it
WaterAssigned ==
    /\ ds = "environmental"
    /\ "water" \in DOMAIN Working(raw_data)
    /\ HasColumn(raw_data.water, "location_id")

\* C25: the assignment by turns is deterministic and balanced: weather record
\* i (from 0) gets station (i mod 5) + 1, water record i the (i mod L)-th of
\* the L sorted air locations; every value assigned is in the pool, and the
\* counts of two pool members differ by at most 1
C25_RoundRobin ==
    /\ (ds = "weather" /\ Built) =>
          /\ \A i \in 1..NumRows(out) :
                out.rows[i]["device_id"] = Str(WeatherStationPrefix \o IntText(((i - 1) % 5) + 1))
          /\ Balanced(Column(out, "device_id"),
                      {Str(WeatherStationPrefix \o IntText(n)) : n \in 1..5})
    /\ WaterAssigned =>
          /\ \A i \in 1..NumRows(raw_data.water) :
                Rank(raw_data.water.rows[i]["location_id"],
                     Range(Column(raw_data.air, "location_id")))
                  = (i - 1) % Cardinality(Range(Column(raw_data.air, "location_id")))
          /\ Balanced(Column(raw_data.water, "location_id"),
                      Range(Column(raw_data.air, "location_id")))

\* the water file has more rows than the air file has locations, two, so
\* that the turn starts over
C25_Witness ==
    /\ WaterAssigned
    /\ Cardinality(Range(Column(raw_data.air, "location_id"))) = 2
    /\ NumRows(raw_data.water) > 2
    /\ raw_data.water.rows[1]["location_id"] = raw_data.water.rows[3]["location_id"]
    /\ raw_data.water.rows[1]["location_id"] # raw_data.water.rows[2]["location_id"]

\* a weather file of more rows than twice the stations was converted
C25_WeatherStartsOver ==
    /\ ds = "weather" /\ Built
    /\ NumRows(out) > 2 * 5
    /\ out.rows[1]["device_id"] = out.rows[11]["device_id"]

----------------------------------------------------------------------------
(* Towers by band of signal *)

\* the number n is the tower of the band that starts at first, for the row
\* at position i (from 1)
InBand(n, first, i) == n \in first..(first + 2) /\ n = ((i - 1) % 3) + first

\* C26: every network record gets exactly one tower number in 1..9, banded
\* by its parsed signal: 1-3 from -70 dBm up, 4-6 from -85 dBm up to below
\* -70 dBm, 7-9 below -85 dBm; within the band the tower is (row index mod
\* 3) plus the band's first number; a record whose signal is missing is
\* placed neither in the high nor in the medium band
C26_TowerBands ==
    (ds = "network" /\ Built) =>
        \A i \in 1..NumRows(out) :
            /\ Cardinality({n \in 1..9 :
                   out.rows[i]["device_id"] = Str(CellTowerPrefix \o IntText(n))}) = 1
            /\ \A n \in 1..9 :
                  out.rows[i]["device_id"] = Str(CellTowerPrefix \o IntText(n)) =>
                      /\ (~isna(out.rows[i]["signal_strength_dbm"])
                            /\ out.rows[i]["signal_strength_dbm"].n >= (0 - 70) * FixedOne)
                           => InBand(n, 1, i)
                      /\ (~isna(out.rows[i]["signal_strength_dbm"])
                            /\ out.rows[i]["signal_strength_dbm"].n >= (0 - 85) * FixedOne
                            /\ out.rows[i]["signal_strength_dbm"].n < (0 - 70) * FixedOne)
                           => InBand(n, 4, i)
                      /\ (~isna(out.rows[i]["signal_strength_dbm"])
                            /\ out.rows[i]["signal_strength_dbm"].n < (0 - 85) * FixedOne)
                           => InBand(n, 7, i)
                      /\ isna(out.rows[i]["signal_strength_dbm"]) => n \notin 1..6

\* a file of more than three rows was parsed, with a signal at each limit,
\* a signal in each band and a missing signal
C26_Witness ==
    /\ ds = "network" /\ Built
    /\ NumRows(out) > 3
    /\ \A limit \in {70, 85} :
          \E i \in 1..NumRows(out) : out.rows[i]["signal_strength_dbm"] = F(0 - limit)
    /\ \A inside \in {60, 75, 90} :
          \E i \in 1..NumRows(out) : out.rows[i]["signal_strength_dbm"] = F(0 - inside)
    /\ \E i \in 1..NumRows(out) : isna(out.rows[i]["signal_strength_dbm"])

----------------------------------------------------------------------------
(* Fusion of the air and the water readings *)

\* the text ends with the given characters
EndsWith(text, suffix) ==
    /\ Len(text) >= Len(suffix)
    /\ SubSeq(text, Len(text) - Len(suffix) + 1, Len(text)) = suffix

\* the positions of the combined rows of a sensor type
RowsOfType(tag) == {i \in 1..NumRows(out) : out.rows[i]["sensor_type"] = tag}

\* C27: the fusion loses and invents no rows: the combined table has
\* exactly the air rows plus the water rows, in non-decreasing order of
\* timestamp; every air row has its six water fields null; every water row
\* has its air fields null except temperature_celsius, which equals its
\* water_temperature; the sensor_type of each row matches the suffix of its
\* device_id
C27_FusionKeepsRows ==
    (ds = "environmental" /\ Built) =>
        /\ NumRows(out) = NumRows(source.air) + NumRows(source.water)
        /\ Cardinality(RowsOfType(air_quality)) = NumRows(source.air)
        /\ Cardinality(RowsOfType(water_quality)) = NumRows(source.water)
        /\ \A i \in 1..NumRows(out) : \A j \in 1..NumRows(out) :
              i < j => Before(out.rows[i]["timestamp"], out.rows[j]["timestamp"])
        /\ \A i \in RowsOfType(air_quality) :
              /\ \A c \in {"water_temperature", "ph_level", "turbidity_ntu", "bod_mgl",
                           "dissolved_oxygen_mgl", "conductivity"} : isna(out.rows[i][c])
              /\ EndsWith(out.rows[i]["device_id"].s, <<"-", "a", "i", "r">>)
        /\ \A i \in RowsOfType(water_quality) :
              /\ \A c \in {"humidity_percent", "air_quality_index", "noise_level_db",
                           "lighting_lux", "crowd_density"} : isna(out.rows[i][c])
              /\ out.rows[i]["temperature_celsius"] = out.rows[i]["water_temperature"]
              /\ EndsWith(out.rows[i]["device_id"].s, <<"-", "w", "a", "t", "e", "r">>)

\* air and water readings were combined, a water reading that carries a
\* temperature coming before an air reading
C27_Witness ==
    /\ ds = "environmental" /\ Built
    /\ NumRows(source.air) >= 2
    /\ NumRows(source.water) >= 2
    /\ \E i \in RowsOfType(water_quality) : \E j \in RowsOfType(air_quality) :
          /\ i < j
          /\ ~isna(out.rows[i]["temperature_celsius"])
          /\ out.rows[i]["timestamp"] # out.rows[j]["timestamp"]

----------------------------------------------------------------------------
(* Matching of truncated headers *)

\* the variables the integration plan marks DISCARD
discard_columns == {"Average wet weight of the root (AWWR)",
                    "Average dry weight of vegetative plants (ADWV)",
                    "Percentage of dry matter for root growth (PDMRG)"}

\* the headers of the input file that carry the named column: its name, or
\* its name truncated
CarriedAs(name) == {name, ShortHeader[name]} \cap Range(source.columns)

\* the metric fields of the output
MetricFields == {column_mapping[k][2] : k \in DOMAIN column_mapping} \ {"plot_id", "plant_class"}

\* C28: matching by partial header never mismatches columns: after the
\* DISCARD columns are removed and the names standardized, for headers
\* exact or truncated, each target field name is given to at most one
\* source column, that column is the one the mapping names for the target,
\* and no DISCARD column is the source of an output metric field
C28_PartialMatchNeverMismatches ==
    (ds = "agriculture" /\ Built) =>
        /\ \A k \in DOMAIN column_mapping :
              /\ Cardinality({j \in DOMAIN raw_data.columns :
                                 raw_data.columns[j] = column_mapping[k][2]}) <= 1
              /\ HasColumn(raw_data, column_mapping[k][2]) =>
                    \E c \in CarriedAs(column_mapping[k][1]) :
                        \A i \in 1..NumRows(raw_data) :
                            raw_data.rows[i][column_mapping[k][2]] = source.rows[i][c]
        /\ \A d \in discard_columns : \A c \in CarriedAs(d) : \A f \in MetricFields :
              \A i \in 1..NumRows(out) : out.rows[i][f] # source.rows[i][c]

----------------------------------------------------------------------------
(* Properties of the loader (SpecLoad) *)

EncodingOrder == <<"utf-8", "latin-1", "cp1252">>

\* C21: the encodings are tried in the order UTF-8, latin-1, cp1252; one
\* is tried only after every earlier one failed to decode; the table
\* loaded is the one read by the first attempt that raised nothing; a
\* first attempt that raised something else than a decoding failure is the
\* only attempt, and its exception ends the load
C21_FallbackOnDecodingFailure ==
    /\ Len(tried) <= Len(EncodingOrder)
    /\ \A i \in DOMAIN tried : tried[i].encoding = EncodingOrder[i]
    /\ \A i \in 1..(Len(tried) - 1) : tried[i].raised = "UnicodeDecodeError"
    /\ pc = "loaded" =>
          /\ tried[Len(tried)].raised = "none"
          /\ raw_data = TextTable(decode(source.bytes, tried[Len(tried)].encoding))
    /\ (tried # <<>> /\ tried[1].raised \notin {"none", "UnicodeDecodeError"}) =>
          /\ Len(tried) = 1
          /\ pc = "failed"
          /\ err = tried[1].raised

----------------------------------------------------------------------------
(* Properties of the wallet mapper (SpecWallet) *)

\* the wallets a device is assigned to
HoldersOf(device_id) == {w \in DOMAIN assignments : device_id \in Range(assignments[w])}

\* the ids of the wallets generated
WalletIds == {wallets[n].wallet_id : n \in 1..Len(wallets)}

\* the category whose list in _get_actual_device_ids names the device
ListedUnder(device_id, cell) ==
    \E cat \in Range(device_categories) :
        /\ device_id \in Range(actual_device_ids[cat])
        /\ cell = Str(CategoryText[cat])

\* C24: the wallet mapper creates 100 wallets and gives each of the 67
\* device ids to exactly one wallet: wallet_001..wallet_067 hold exactly one
\* device each, the other 33 wallets none, no wallet ever holds two, and the
\* mapping file has exactly one row per wallet, with the device's true
\* category where the wallet holds a device
C24_OneDevicePerWallet ==
    /\ \A w \in DOMAIN assignments : Len(assignments[w]) = 1
    /\ pc \in {"detail", "write", "done"} =>
          /\ Len(wallets) = 100
          /\ Cardinality(WalletIds) = 100
          /\ Len(all_devices) = 67
          /\ \A n \in 1..67 : Cardinality(HoldersOf(all_devices[n])) = 1
          /\ DOMAIN assignments = {WalletId(i) : i \in 0..66}
          /\ DOMAIN assignments \subseteq WalletIds
          /\ Cardinality(WalletIds \ DOMAIN assignments) = 33
    /\ pc = "done" =>
          /\ NumRows(saved) = 100
          /\ \A n \in 1..100 :
                /\ saved.rows[n].wallet_id = wallets[n].wallet_id
                /\ saved.rows[n].wallet_address = wallets[n].address
          /\ \A n \in 1..67 :
                /\ assignments[saved.rows[n].wallet_id] = <<saved.rows[n].device_id>>
                /\ saved.rows[n].devices_owned = F(1)
                /\ ListedUnder(saved.rows[n].device_id, saved.rows[n].device_category)
          /\ \A n \in 68..100 :
                /\ saved.rows[n].device_id = Str(<<>>)
                /\ saved.rows[n].device_category = Str(<<>>)
                /\ saved.rows[n].devices_owned = F(0)

\* the order random.shuffle leaves 67 items in right after random.seed(42)
\* (CPython 3.11), by their position before
Seed42Order == <<16, 50, 30, 26, 8, 58, 45, 64, 17, 51, 10, 34, 31, 21, 19, 47, 24,
                 40, 46, 62, 20, 23, 12, 41, 59, 53, 66, 43, 25, 60, 5, 37, 22, 54,
                 11, 1, 18, 55, 29, 49, 27, 57, 42, 13, 65, 52, 39, 33, 63, 14, 56,
                 2, 3, 28, 38, 6, 35, 61, 44, 7, 48, 9, 67, 32, 36, 4, 15>>

\* the script ran from main() to the end and wrote a shuffled mapping
C24_Witness ==
    /\ pc = "done"
    /\ py_random.seed = 42
    /\ NumRows(saved) = 100
    /\ saved.rows[1].device_id = all_devices[Seed42Order[1]]
    /\ saved.rows[67].device_id = all_devices[Seed42Order[67]]
    /\ saved.rows[1].device_id # all_devices[1]

----------------------------------------------------------------------------
(* Properties of the master runner (SpecMasterLive) *)

\* the scripts started so far are the first of the list, each once and in
\* the order of the list, and each counts as successful exactly when it
\* exited with status 0
AttemptedInOrder ==
    /\ Len(attempts) <= 6
    /\ Len(results) = Len(attempts)
    /\ \A i \in 1..Len(attempts) :
          /\ attempts[i].script = transformations[i]
          /\ results[i].script = transformations[i]
          /\ results[i].success
               <=> (attempts[i].outcome.t = "exited" /\ attempts[i].outcome.returncode = 0)

\* the summary counts every attempt, and announces that all datasets were
\* transformed exactly when all six succeeded
Summarized ==
    pc = "finished" =>
        /\ Len(attempts) = 6
        /\ report.successful + report.failed = 6
        /\ report.successful = Cardinality({i \in 1..6 : results[i].success})
        /\ report.message = ALL_TRANSFORMED <=> \A i \in 1..6 : results[i].success

\* C29: the master runner attempts all six transformations exactly once
\* each, in the listed order, whatever the outcome of the earlier ones;
\* afterwards successful + failed = 6, a script counts as successful exactly
\* when its exit code was 0, and the message that all datasets were
\* successfully transformed is printed exactly when all six succeeded
C29_AllSixAttempted ==
    /\ [](AttemptedInOrder /\ Summarized)
    /\ <>(pc = "finished" /\ Len(attempts) = 6)
    /\ [][Len(attempts') > Len(attempts) => Len(attempts') = Len(attempts) + 1]_vars

\* the run ended after a script had failed, a later one had succeeded, and
\* one could not be started
C29_Witness ==
    /\ pc = "finished"
    /\ \E i \in 1..5 : ~results[i].success /\ results[i + 1].success
    /\ \E i \in 1..6 : attempts[i].outcome = NotStarted
    /\ \E i \in 1..6 : attempts[i].outcome = Exited(0 - 9)
    /\ report.failed = 3

----------------------------------------------------------------------------
(* Properties of the smoke test (SpecSmoke) *)

\* a phase recorded a failure: a transformation whose status is not PASS,
\* a failed health or GraphQL check, a data file with a PII violation or a
\* read error, an error of the DID test or of the benchmark
FailureRecorded ==
    \/ \E script \in DOMAIN test_results["transformations"] :
          test_results["transformations"][script].status # "PASS"
    \/ ~test_results["node_connectivity"].health_check
    \/ ~test_results["node_connectivity"].graphql_api
    \/ \E file \in DOMAIN test_results["data_integrity"] :
          test_results["data_integrity"][file].status \in {"PRIVACY_CONCERN", "ERROR"}
    \/ test_results["device_authentication"].status = "ERROR"
    \/ get_status(test_results["performance"]) = "ERROR"

\* the counts of the report are consistent
CountsConsistent ==
    /\ report.failed_tests <= report.total_tests
    /\ report.passed_tests + report.failed_tests = report.total_tests
    /\ report.overall_status = "FAIL" <=> report.failed_tests > 0

\* C30: the harness reports PASS overall, and run_all_tests returns success,
\* only if no phase recorded a failure; and in the report failed_tests <=
\* total_tests, passed_tests + failed_tests = total_tests, and the overall
\* status is FAIL exactly when failed_tests > 0
C30_PassOnlyWithoutFailure ==
    pc \in {"run_all_tests", "finished"} =>
        /\ FailureRecorded => report.overall_status = "FAIL"
        /\ (pc = "finished" /\ results[1]) => ~FailureRecorded
        /\ CountsConsistent

====
